---- MODULE Spec2Model ----
(***************************************************************************)
(* Verification model of nerdmonkey/spartan-bogart:                        *)
(* app/services/secret_manager.py, SecretManagerService - the TTL cache    *)
(* and the public operations layered on it, against a Secret Manager       *)
(* backend holding secrets with numbered versions.                         *)
(*                                                                         *)
(* Strings the code concatenates or inspects (secret names, versions,      *)
(* cache keys) are sequences of tokens, so that f"{name}:{version}",       *)
(* str.strip and str.startswith are computed as the code computes them.    *)
(***************************************************************************)
EXTENDS Integers, Sequences, FiniteSets, TLC

\* ---------------------------------------------------------------- bounds
MaxTime == 1
MaxVersions == 2
MaxTTL == 1
\* number of service calls in a run
MaxCalls == 3

\* ---------------------------------------------------------------- inputs
\* secret ids that exist as resources in the backend project
Names == {<<"a">>, <<"b">>}
\* secret_name arguments where the code normalises the name: ids, and an id
\* with leading whitespace
NameInputs == Names \cup {<<" ", "a">>}
\* the secret whose versions are added, disabled, enabled and destroyed; the
\* other secret is read, deleted and created beside it
Versioned == {<<"a">>}
VersionedInputs == Versioned \cup {<<" ", "a">>}
Values == {"x", "y"}
LATEST == <<"latest">>
VersionStr(n) == <<ToString(n)>>
VersionInputs == {LATEST} \cup {VersionStr(n) : n \in 1..MaxVersions}
TTLs == 0..MaxTTL
PROJECT == "test-project"

None == [none |-> TRUE]
NoVersion == <<>>

VARIABLES
    enable_cache,       \* self.enable_cache
    cache_ttl_seconds,  \* self.cache_ttl_seconds
    cache,              \* self._cache : key -> (value, expiry_time)
    now,                \* datetime.now(), in seconds
    secrets,            \* backend: secret id -> [exists, versions]
    ncalls,             \* service calls made so far
    last,               \* the last call: operation, arguments, outcome
    pc,                 \* where __init__ stands, "done" once it has returned
    project_id,         \* self.project_id
    credentials,        \* self.credentials
    client,             \* self.client
    consulted,          \* the sources __init__ has looked up, in order
    raised              \* the exception __init__ raised, None if none

\* the service and its backend
svars == <<enable_cache, cache_ttl_seconds, cache, now, secrets, ncalls, last>>
\* the construction of the service
cvars == <<pc, project_id, credentials, client, consulted, raised>>

vars == <<enable_cache, cache_ttl_seconds, cache, now, secrets, ncalls, last,
          pc, project_id, credentials, client, consulted, raised>>

\* ------------------------------------------------------- string helpers
RECURSIVE LStrip(_)
LStrip(s) == IF s # <<>> /\ Head(s) = " " THEN LStrip(Tail(s)) ELSE s

RECURSIVE RStrip(_)
RStrip(s) ==
    IF s # <<>> /\ s[Len(s)] = " " THEN RStrip(SubSeq(s, 1, Len(s) - 1)) ELSE s

Strip(s) == RStrip(LStrip(s))

StartsWith(s, prefix) ==
    Len(s) >= Len(prefix) /\ SubSeq(s, 1, Len(prefix)) = prefix

\* resource paths, and path.split("/")[-1]
_get_secret_path(secret_name) == <<"projects", PROJECT, "secrets", secret_name>>

_get_secret_version_path(secret_name, version) ==
    <<"projects", PROJECT, "secrets", secret_name, "versions", version>>

LastSegment(path) == path[Len(path)]

\* ------------------------------------------------------------ TTL cache
_get_cache_key(secret_name, version) == secret_name \o <<":">> \o version

Remove(c, keys) == [k \in DOMAIN c \ keys |-> c[k]]

Store(c, key, entry) ==
    [k \in DOMAIN c \cup {key} |-> IF k = key THEN entry ELSE c[k]]

\* _get_from_cache that never finds an entry
_get_from_cache_never_hits(c, cache_key, t) == None

\* _get_from_cache that still serves an entry at its expiry time
_get_from_cache_at_expiry(c, cache_key, t) ==
    IF ~enable_cache THEN None
    ELSE IF cache_key \in DOMAIN c /\ t <= c[cache_key].expiry
         THEN c[cache_key].value
         ELSE None

\* value returned by _get_from_cache
_get_from_cache(c, cache_key, t) ==
    IF ~enable_cache THEN None
    ELSE IF cache_key \in DOMAIN c /\ t < c[cache_key].expiry
         THEN c[cache_key].value
         ELSE None

\* self._cache after _get_from_cache: an expired entry found is deleted
_get_from_cache_store(c, cache_key, t) ==
    IF enable_cache /\ cache_key \in DOMAIN c /\ ~(t < c[cache_key].expiry)
    THEN Remove(c, {cache_key})
    ELSE c

\* _put_in_cache that stores even when caching is disabled
_put_in_cache_unconditional(c, cache_key, value, t) ==
    Store(c, cache_key, [value |-> value, expiry |-> t + cache_ttl_seconds])

\* _put_in_cache that keeps the entry a key already has
_put_in_cache_keeps_old(c, cache_key, value, t) ==
    IF ~enable_cache \/ cache_key \in DOMAIN c THEN c
    ELSE Store(c, cache_key, [value |-> value, expiry |-> t + cache_ttl_seconds])

_put_in_cache(c, cache_key, value, t) ==
    IF ~enable_cache THEN c
    ELSE Store(c, cache_key, [value |-> value, expiry |-> t + cache_ttl_seconds])

\* _invalidate_cache that matches the name without the separator
_invalidate_cache_by_name_prefix(c, secret_name, version) ==
    IF ~enable_cache THEN c
    ELSE IF version # NoVersion
         THEN Remove(c, {_get_cache_key(secret_name, version)})
         ELSE Remove(c, {k \in DOMAIN c : StartsWith(k, secret_name)})

\* _invalidate_cache that removes nothing
_invalidate_cache_skipped(c, secret_name, version) == c

\* _invalidate_cache that ignores the version it is given
_invalidate_cache_all_versions(c, secret_name, version) ==
    IF ~enable_cache THEN c
    ELSE Remove(c, {k \in DOMAIN c : StartsWith(k, secret_name \o <<":">>)})

\* _invalidate_cache that drops the whole cache when no version is given
_invalidate_cache_clears(c, secret_name, version) ==
    IF ~enable_cache THEN c
    ELSE IF version # NoVersion
         THEN Remove(c, {_get_cache_key(secret_name, version)})
         ELSE Remove(c, DOMAIN c)

_invalidate_cache(c, secret_name, version) ==
    IF ~enable_cache THEN c
    ELSE IF version # NoVersion
         THEN Remove(c, {_get_cache_key(secret_name, version)})
         ELSE Remove(c, {k \in DOMAIN c : StartsWith(k, secret_name \o <<":">>)})

clear_cache_store(c) == IF ~enable_cache THEN c ELSE Remove(c, DOMAIN c)

get_cache_stats(c, t) ==
    IF ~enable_cache
    THEN [enabled |-> FALSE, size |-> 0, ttl_seconds |-> cache_ttl_seconds]
    ELSE LET expired_count == Cardinality({k \in DOMAIN c : c[k].expiry < t})
         IN [enabled |-> TRUE,
             size |-> Cardinality(DOMAIN c),
             expired_entries |-> expired_count,
             active_entries |-> Cardinality(DOMAIN c) - expired_count,
             ttl_seconds |-> cache_ttl_seconds]

\* ----------------------------------------------------------- exceptions
\* an exception of the client library or of the runtime: its class and the
\* message it was built with, a sequence of characters
Exc(type, message) == [type |-> type, message |-> message]

\* the direct base class of an exception class
Base(type) ==
    CASE type \in {"InvalidArgument", "FailedPrecondition"} -> "BadRequest"
      [] type = "Unauthenticated" -> "Unauthorized"
      [] type = "PermissionDenied" -> "Forbidden"
      [] type \in {"AlreadyExists", "Aborted"} -> "Conflict"
      [] type = "ResourceExhausted" -> "TooManyRequests"
      [] type = "DeadlineExceeded" -> "GatewayTimeout"
      [] type \in {"BadRequest", "Unauthorized", "Forbidden", "NotFound",
                   "Conflict", "TooManyRequests"} -> "ClientError"
      [] type \in {"InternalServerError", "ServiceUnavailable",
                   "GatewayTimeout"} -> "ServerError"
      [] type \in {"ClientError", "ServerError"} -> "GoogleAPICallError"
      [] type \in {"GoogleAPICallError", "RetryError"} -> "GoogleAPIError"
      [] type = "ConnectionResetError" -> "ConnectionError"
      [] type \in {"ConnectionError", "TimeoutError", "PermissionError",
                   "FileNotFoundError"} -> "OSError"
      [] type \in {"TimeoutExpired", "CalledProcessError"}
            -> "SubprocessError"
      [] type = "JSONDecodeError" -> "ValueError"
      [] OTHER -> "Exception"

\* the classes an exception class is or derives from
RECURSIVE Mro(_)
Mro(type) ==
    IF type = "Exception" THEN {"Exception"} ELSE {type} \cup Mro(Base(type))

isinstance(e, exception_types) == Mro(e.type) \cap exception_types # {}

\* HTTP status a backend call error prints before its message
StatusCode(type) ==
    CASE type = "InvalidArgument" -> "400"
      [] type = "FailedPrecondition" -> "400"
      [] type = "Unauthenticated" -> "401"
      [] type = "PermissionDenied" -> "403"
      [] type = "NotFound" -> "404"
      [] type \in {"AlreadyExists", "Aborted"} -> "409"
      [] type \in {"TooManyRequests", "ResourceExhausted"} -> "429"
      [] type = "InternalServerError" -> "500"
      [] type = "ServiceUnavailable" -> "503"
      [] type = "DeadlineExceeded" -> "504"
      [] OTHER -> "None"

\* str(e)
str(e) ==
    IF "GoogleAPICallError" \in Mro(e.type)
    THEN <<StatusCode(e.type), " ">> \o e.message
    ELSE e.message

UPPERCASE ==
    <<"A", "B", "C", "D", "E", "F", "G", "H", "I", "J", "K", "L", "M",
      "N", "O", "P", "Q", "R", "S", "T", "U", "V", "W", "X", "Y", "Z">>

LOWERCASE ==
    <<"a", "b", "c", "d", "e", "f", "g", "h", "i", "j", "k", "l", "m",
      "n", "o", "p", "q", "r", "s", "t", "u", "v", "w", "x", "y", "z">>

\* str.lower, character by character
lower(s) ==
    [i \in 1..Len(s) |->
        IF \E k \in 1..26 : UPPERCASE[k] = s[i]
        THEN LOWERCASE[CHOOSE k \in 1..26 : UPPERCASE[k] = s[i]]
        ELSE s[i]]

\* sub in s
Contains(s, sub) ==
    \E i \in 0..(Len(s) - Len(sub)) : SubSeq(s, i + 1, i + Len(sub)) = sub

DISABLED_WORD == <<"d", "i", "s", "a", "b", "l", "e", "d">>
DESTROYED_WORD == <<"d", "e", "s", "t", "r", "o", "y", "e", "d">>

\* errors of the backend
NotFound == Exc("NotFound", <<"n", "o", "n", "e">>)
VersionDisabled ==
    Exc("FailedPrecondition", <<"i", "s", " ", "D", "I", "S", "A", "B", "L", "E", "D">>)
VersionDestroyed ==
    Exc("FailedPrecondition",
        <<"i", "s", " ", "D", "E", "S", "T", "R", "O", "Y", "E", "D">>)
InvalidArgument == Exc("InvalidArgument", <<"b", "a", "d">>)
AlreadyExists == Exc("AlreadyExists", <<"d", "u", "p">>)
ServiceUnavailable == Exc("ServiceUnavailable", <<"d", "o", "w", "n">>)
VersionLocked == Exc("FailedPrecondition", <<"l", "o", "c", "k", "e", "d">>)

\* exceptions a backend call can raise: those of the client library and those
\* of the runtime under it
GcpErrors ==
    {NotFound, VersionDisabled, VersionDestroyed, VersionLocked,
     InvalidArgument, AlreadyExists, ServiceUnavailable}
    \cup {Exc(type, <<"n", "o">>) :
             type \in {"PermissionDenied", "Unauthenticated",
                       "ResourceExhausted", "TooManyRequests",
                       "DeadlineExceeded", "InternalServerError",
                       "RetryError", "Aborted", "ConnectionError",
                       "ConnectionResetError", "TimeoutError", "OSError",
                       "ValueError", "KeyError"}}

\* a backend call that raised e
Failed(e) == [ok |-> FALSE, error |-> e]

\* --------------------------------------------------------- error mapper
\* context.get(key, default)
Get(context, key, default) ==
    IF key \in DOMAIN context THEN context[key] ELSE default

\* context[key] = value
Put(context, key, value) ==
    [k \in DOMAIN context \cup {key} |->
        IF k = key THEN value ELSE context[k]]

EmptyContext == [k \in {} |-> <<>>]

\* _handle_not_found that answers for the secret whatever the version
_handle_not_found_ignores_version(secret_name, version) ==
    Exc("SecretNotFoundException",
        <<"Secret '">> \o secret_name \o <<"' not found">>)

_handle_not_found(secret_name, version) ==
    IF version # NoVersion
    THEN Exc("SecretVersionNotFoundException",
             <<"Secret '">> \o secret_name \o <<"' version '">> \o version
                 \o <<"' not found">>)
    ELSE Exc("SecretNotFoundException",
             <<"Secret '">> \o secret_name \o <<"' not found">>)

\* _handle_failed_precondition that matches the message as it is spelled
_handle_failed_precondition_case_sensitive(secret_name, version, error_msg) ==
    IF Contains(error_msg, DISABLED_WORD) \/ Contains(error_msg, DESTROYED_WORD)
    THEN Exc("SecretVersionNotFoundException",
             <<"Secret '">> \o secret_name \o <<"' version '">> \o version
                 \o <<"' is not accessible (disabled or destroyed)">>)
    ELSE Exc("SecretManagerException",
             <<"Operation failed due to precondition: ">> \o error_msg)

_handle_failed_precondition(secret_name, version, error_msg) ==
    IF Contains(lower(error_msg), DISABLED_WORD)
           \/ Contains(lower(error_msg), DESTROYED_WORD)
    THEN Exc("SecretVersionNotFoundException",
             <<"Secret '">> \o secret_name \o <<"' version '">> \o version
                 \o <<"' is not accessible (disabled or destroyed)">>)
    ELSE Exc("SecretManagerException",
             <<"Operation failed due to precondition: ">> \o error_msg)

\* the first entry of exception_mappings whose classes e is an instance of
_get_mapped_exception(e, context) ==
    LET secret_name == Get(context, "secret_name", <<"unknown">>)
        version == Get(context, "version", <<>>)
        operation == Get(context, "operation", "operation")
        error_msg == str(e)
    IN IF isinstance(e, {"NotFound"})
       THEN _handle_not_found(secret_name, version)
       ELSE IF isinstance(e, {"PermissionDenied"})
       THEN Exc("SecretAccessDeniedException",
                <<"Permission denied for ", operation, " on secret '">>
                    \o secret_name \o <<"': ">> \o error_msg)
       ELSE IF isinstance(e, {"AlreadyExists"})
       THEN Exc("SecretManagerException",
                <<"Secret '">> \o secret_name \o <<"' already exists">>)
       ELSE IF isinstance(e, {"FailedPrecondition"})
       THEN _handle_failed_precondition(secret_name, version, error_msg)
       ELSE IF isinstance(e, {"InvalidArgument"})
       THEN Exc("SecretManagerException",
                <<"Invalid argument for ", operation, ": ">> \o error_msg)
       ELSE IF isinstance(e, {"ResourceExhausted"})
       THEN Exc("SecretQuotaExceededException",
                <<"Quota exceeded for ", operation, ": ">> \o error_msg)
       ELSE IF isinstance(e, {"DeadlineExceeded"})
       THEN Exc("SecretTimeoutException",
                <<"Operation timed out during ", operation, ": ">>
                    \o error_msg)
       ELSE IF isinstance(e, {"ServiceUnavailable"})
       THEN Exc("SecretUnavailableException",
                <<"Secret Manager service temporarily unavailable during ",
                  operation, ": ">> \o error_msg)
       ELSE IF isinstance(e, {"InternalServerError"})
       THEN Exc("SecretInternalErrorException",
                <<"Internal server error during ", operation, ": ">>
                    \o error_msg)
       ELSE IF isinstance(e, {"RetryError", "TooManyRequests"})
       THEN Exc("SecretConnectionException",
                <<"Network or rate limiting issue during ", operation, ": ">>
                    \o error_msg)
       ELSE IF isinstance(e, {"ConnectionError", "OSError"})
       THEN Exc("SecretConnectionException",
                <<"Network connectivity issue during ", operation, ": ">>
                    \o error_msg)
       ELSE Exc("SecretManagerException",
                <<"Unexpected error during ", operation, ": ">> \o error_msg)

\* _map_gcp_exception(e, operation, context=None)
_map_gcp_exception(e, operation, context) ==
    _get_mapped_exception(
        e, Put(IF context = None THEN EmptyContext ELSE context,
               "operation", operation))

\* -------------------------------------------------------------- backend
NoSecret == [exists |-> FALSE, versions |-> <<>>]

\* a secret of the project when the service is constructed: it has a first
\* version
InitialSecrets ==
    {[exists |-> TRUE, versions |-> <<[value |-> "x", state |-> "ENABLED"]>>]}

SecretExists(id) == id \in Names /\ secrets[id].exists

Max(S) == CHOOSE x \in S : \A y \in S : y <= x

\* version number a version string denotes in secret id, 0 when there is none
ResolveVersion(id, version) ==
    LET vs == secrets[id].versions
        enabled == {i \in 1..Len(vs) : vs[i].state = "ENABLED"}
        explicit == {i \in 1..Len(vs) : VersionStr(i) = version}
    IN IF version = LATEST
       THEN (IF enabled = {} THEN 0 ELSE Max(enabled))
       ELSE (IF explicit = {} THEN 0 ELSE Max(explicit))

\* AccessSecretVersion RPC on a version path
access_secret_version(path) ==
    LET id == path[4]
        n == ResolveVersion(id, path[6])
    IN IF ~SecretExists(id) THEN Failed(NotFound)
       ELSE IF n = 0 THEN Failed(NotFound)
       ELSE IF secrets[id].versions[n].state = "DISABLED"
            THEN Failed(VersionDisabled)
       ELSE IF secrets[id].versions[n].state = "DESTROYED"
            THEN Failed(VersionDestroyed)
       ELSE [ok |-> TRUE,
             name |-> _get_secret_version_path(id, VersionStr(n)),
             data |-> secrets[id].versions[n].value]

\* GetSecret RPC on a secret path
backend_get_secret(path) ==
    LET id == path[4]
    IN IF ~SecretExists(id) THEN Failed(NotFound)
       ELSE [ok |-> TRUE, name |-> path]

\* ListSecretVersions RPC on a secret path
backend_list_secret_versions(parent) ==
    LET id == parent[4]
    IN IF ~SecretExists(id) THEN Failed(NotFound)
       ELSE [ok |-> TRUE, total_size |-> Len(secrets[id].versions),
             versions |-> secrets[id].versions]

\* ------------------------------------------------------------ call log
\* what the last service call was and what the caller saw: the arguments, the
\* value returned or the exception raised, the number of backend calls it
\* issued, the cache keys it removed, and the number of backend calls that
\* raised (an operation that raises does so at its first failed backend call)
Call(op, name, version, value, key, ok, result, calls, hit, removed) ==
    [op |-> op, name |-> name, version |-> version, value |-> value,
     key |-> key, ok |-> ok, result |-> result, calls |-> calls, hit |-> hit,
     removed |-> removed, failed |-> IF ok THEN 0 ELSE 1]

Removed(before, after) == DOMAIN before \ DOMAIN after

\* the exception a failed operation raises: raise mapped_exception, in the
\* handler of e, which the raised exception keeps as its cause
Raised(e, operation, context) ==
    [exception |-> _map_gcp_exception(e, operation, context).type,
     cause |-> e]

SecretResponse(secret_name, secret_value, version) ==
    [secret_name |-> secret_name, secret_value |-> secret_value,
     version |-> version]

\* --------------------------------------------------------- construction
\* a value handed to or found by the constructor: its type and its content;
\* None is the value None
Arg(type, value) == [type |-> type, value |-> value]
Str(s) == Arg("str", s)
Credentials(source) == Arg("Credentials", <<source>>)

\* bool(x): None, the empty string and the empty dict are false
Truthy(x) == x # None /\ x.value # <<>>

\* one lookup of a source during construction: what it gave, and what went
\* wrong with it (None when nothing did)
Read(source, value, failure) ==
    [source |-> source, value |-> value, failure |-> failure]

\* an external lookup: what it raises (None when it returns) and its result
Returns(value) == [raises |-> None, value |-> value]
Raises(type) == [raises |-> Exc(type, <<>>), value |-> None]

\* project_id arguments of the constructor
ProjectArgs == {None, Str(<<>>), Str(<<PROJECT>>)}

\* outcomes of env("GOOGLE_CLOUD_PROJECT"), the framework lookup
FrameworkEnvProject ==
    {Returns(None), Returns(Str(<<>>)), Returns(Str(<<"framework-project">>)),
     Raises("RuntimeError")}

gcp_env_vars ==
    <<"GOOGLE_CLOUD_PROJECT", "GCP_PROJECT", "GCLOUD_PROJECT", "PROJECT_ID">>

EnvVarNames == {gcp_env_vars[i] : i \in 1..Len(gcp_env_vars)}

\* os.environ restricted to gcp_env_vars: a variable is unset or holds a
\* project named after it, and the first may also be set to ""
Environs ==
    {[v \in EnvVarNames |->
        IF v \in set THEN Str(<<v>>)
        ELSE IF v \in empty THEN Str(<<>>) ELSE None] :
     set \in SUBSET EnvVarNames, empty \in SUBSET {gcp_env_vars[1]}}

\* outcomes of subprocess.run(["gcloud", "config", "get-value", "project"])
Completed(returncode, stdout) ==
    [raises |-> None, returncode |-> returncode, stdout |-> stdout]
GcloudRuns ==
    {Completed(0, <<"gcloud-project", " ">>), Completed(0, <<" ">>),
     Completed(1, <<>>), Completed(1, <<"gcloud-project", " ">>),
     Raises("TimeoutExpired"), Raises("FileNotFoundError"),
     Raises("PermissionError")}

\* outcomes of requests.get(metadata_url)
Response(status_code, text) ==
    [raises |-> None, status_code |-> status_code, text |-> text]
MetadataResponses ==
    {Response(200, <<"metadata-project", " ">>), Response(200, <<" ">>),
     Response(404, <<"metadata-project">>), Raises("ConnectionError")}

\* _try_framework_env_project_id: any exception of the lookup is caught
_try_framework_env_project_id(looked_up) ==
    IF looked_up.raises # None THEN Returns(None)
    ELSE IF Truthy(looked_up.value) THEN Returns(looked_up.value)
    ELSE Returns(None)

\* the variables _try_standard_env_vars_project_id reads, in order, from
\* the i-th on: it stops at the first that is set and not empty
RECURSIVE EnvVarsRead(_, _)
EnvVarsRead(environ, i) ==
    IF i > Len(gcp_env_vars) THEN <<>>
    ELSE IF Truthy(environ[gcp_env_vars[i]]) THEN <<gcp_env_vars[i]>>
    ELSE <<gcp_env_vars[i]>> \o EnvVarsRead(environ, i + 1)

\* _try_standard_env_vars_project_id that lets a later variable override
_try_standard_env_vars_project_id_last_wins(environ) ==
    LET set == {i \in 1..Len(gcp_env_vars) : Truthy(environ[gcp_env_vars[i]])}
    IN IF set = {} THEN Returns(None)
       ELSE Returns(environ[gcp_env_vars[Max(set)]])

_try_standard_env_vars_project_id(environ) ==
    LET read == EnvVarsRead(environ, 1)
        found == environ[read[Len(read)]]
    IN IF Truthy(found) THEN Returns(found) ELSE Returns(None)

\* _try_gcloud_config_project_id: TimeoutExpired, CalledProcessError and
\* FileNotFoundError are caught, any other exception leaves the method
_try_gcloud_config_project_id(result) ==
    IF result.raises # None
    THEN (IF isinstance(result.raises, {"TimeoutExpired", "CalledProcessError",
                                        "FileNotFoundError"})
          THEN Returns(None)
          ELSE [raises |-> result.raises, value |-> None])
    ELSE IF result.returncode = 0 /\ Strip(result.stdout) # <<>>
    THEN Returns(Str(Strip(result.stdout)))
    ELSE Returns(None)

\* _try_metadata_service_project_id: any exception is caught
_try_metadata_service_project_id(response) ==
    IF response.raises # None THEN Returns(None)
    ELSE IF response.status_code = 200
    THEN Returns(Str(Strip(response.text)))
    ELSE Returns(None)

\* credentials_path arguments, and the key file found there
CredentialPaths == {None, Str(<<>>), Str(<<"key.json">>)}
File(exists, load) == [exists |-> exists, load |-> load]
KeyFiles ==
    {File(FALSE, Raises("FileNotFoundError")),
     File(TRUE, Raises("ValueError")),
     File(TRUE, Returns(Credentials("service_account_file")))}

\* _try_credentials_file
_try_credentials_file(credentials_path, file) ==
    IF ~Truthy(credentials_path) THEN Returns(None)
    ELSE IF ~file.exists THEN Raises("SecretManagerException")
    ELSE IF file.load.raises # None THEN Raises("SecretManagerException")
    ELSE Returns(file.load.value)

\* credentials arguments: None, a string, a Credentials object, or an
\* object of another type (a dict, empty or not)
CredentialArgs ==
    {None,
     Str(<<>>),
     Str(<<"{", "oops">>),
     Str(<<"[", "]">>),
     Str(<<"{", "}">>),
     Str(<<"{", "service_account", "}">>),
     Credentials("provided_object"),
     Arg("dict", <<>>),
     Arg("dict", <<"type">>)}

\* json.loads(credentials_json)
json_loads(credentials_json) ==
    IF credentials_json = <<"[", "]">> THEN Returns(Arg("list", <<>>))
    ELSE IF credentials_json = <<"{", "}">> THEN Returns(Arg("dict", <<>>))
    ELSE IF credentials_json = <<"{", "service_account", "}">>
    THEN Returns(Arg("dict", <<"service_account">>))
    ELSE Raises("JSONDecodeError")

\* service_account.Credentials.from_service_account_info(creds_info)
from_service_account_info(creds_info) ==
    IF creds_info.type # "dict" THEN Raises("AttributeError")
    ELSE IF creds_info.value = <<>> THEN Raises("ValueError")
    ELSE Returns(Credentials("service_account_info"))

\* _load_credentials_from_json: JSONDecodeError, ValueError and KeyError
\* become SecretManagerException, any other exception leaves the method
_load_credentials_from_json(credentials_json) ==
    LET creds_info == json_loads(credentials_json)
        creds == IF creds_info.raises # None THEN creds_info
                 ELSE from_service_account_info(creds_info.value)
    IN IF creds.raises = None THEN creds
       ELSE IF isinstance(creds.raises,
                          {"JSONDecodeError", "ValueError", "KeyError"})
       THEN Raises("SecretManagerException")
       ELSE creds

\* _try_provided_credentials
_try_provided_credentials(credentials_arg) ==
    IF ~Truthy(credentials_arg) THEN Returns(None)
    ELSE IF credentials_arg.type = "str"
    THEN _load_credentials_from_json(credentials_arg.value)
    ELSE IF credentials_arg.type = "Credentials" THEN Returns(credentials_arg)
    ELSE Raises("SecretManagerException")

\* the framework lookup of GOOGLE_APPLICATION_CREDENTIALS and the key file
\* at the path it names
FrameworkCredentialLookups ==
    {[path |-> Raises("RuntimeError"), file |-> File(FALSE, Raises("FileNotFoundError"))],
     [path |-> Returns(None), file |-> File(FALSE, Raises("FileNotFoundError"))]}
    \cup {[path |-> Returns(Str(<<"framework.json">>)), file |-> f] : f \in KeyFiles}

\* _try_framework_credentials: every exception is caught
_try_framework_credentials(lookup) ==
    IF lookup.path.raises # None THEN Returns(None)
    ELSE IF Truthy(lookup.path.value) /\ lookup.file.exists
                /\ lookup.file.load.raises = None
    THEN lookup.file.load
    ELSE Returns(None)

\* outcomes of google.auth.default()
DefaultCredentials ==
    {Returns(Credentials("default_credentials")),
     Raises("DefaultCredentialsError")}

\* _try_default_credentials: every exception is caught
_try_default_credentials(found) ==
    IF found.raises # None THEN Returns(None) ELSE found

\* outcomes of SecretManagerServiceClient(...) and of the list_secrets call
\* that tests the connection ("skipped" under PYTEST_CURRENT_TEST)
ClientCreations ==
    {Returns(Arg("SecretManagerServiceClient", <<"client">>)),
     Raises("Unauthenticated")}
ConnectionTests ==
    {Returns(Str(<<"skipped">>)), Returns(Str(<<"success">>)), Raises("PermissionDenied"),
     Raises("NotFound"), Raises("ServiceUnavailable")}

\* _test_client_connection with _handle_connection_test_error
_test_client_connection(tested) ==
    IF tested.raises = None THEN tested
    ELSE IF isinstance(tested.raises, {"PermissionDenied"})
    THEN Returns(Str(<<"permission_denied">>))
    ELSE IF isinstance(tested.raises, {"NotFound"})
    THEN Raises("SecretManagerException")
    ELSE Returns(Str(<<"failed">>))

\* _initialize_client with _handle_client_initialization_error: whatever
\* is raised becomes SecretManagerException
_initialize_client(created, tested) ==
    IF created.raises # None THEN Raises("SecretManagerException")
    ELSE IF _test_client_connection(tested).raises # None
    THEN Raises("SecretManagerException")
    ELSE created

\* __init__ raises: no instance is constructed
Abort(type) == pc' = "raised" /\ raised' = Exc(type, <<>>)

\* a detection method of _determine_project_id has answered; after the
\* last one __init__ raises for want of a project
Detected(reads, result, next_method) ==
    /\ consulted' = consulted \o reads
    /\ IF result.raises # None
       THEN Abort(result.raises.type) /\ UNCHANGED project_id
       ELSE IF Truthy(result.value)
       THEN /\ project_id' = result.value
            /\ pc' = "_try_credentials_file"
            /\ UNCHANGED raised
       ELSE IF next_method = "raise"
       THEN Abort("SecretManagerException") /\ UNCHANGED project_id
       ELSE pc' = next_method /\ UNCHANGED <<project_id, raised>>
    /\ UNCHANGED <<credentials, client>>
    /\ UNCHANGED svars

\* __init__ and the explicit argument of _determine_project_id
DetermineProjectId ==
    /\ pc = "_determine_project_id"
    /\ \E provided_project_id \in ProjectArgs :
        Detected(<<Read("constructor_parameter", provided_project_id, None)>>,
                 Returns(IF Truthy(provided_project_id)
                         THEN provided_project_id ELSE None),
                 "_try_framework_env_project_id")

TryFrameworkEnvProjectId ==
    /\ pc = "_try_framework_env_project_id"
    /\ \E looked_up \in FrameworkEnvProject :
        Detected(<<Read("framework_environment", looked_up.value,
                        looked_up.raises)>>,
                 _try_framework_env_project_id(looked_up),
                 "_try_standard_env_vars_project_id")

TryStandardEnvVarsProjectId ==
    /\ pc = "_try_standard_env_vars_project_id"
    /\ \E environ \in Environs :
        LET read == EnvVarsRead(environ, 1)
        IN Detected([i \in 1..Len(read) |->
                        Read(read[i], environ[read[i]], None)],
                    _try_standard_env_vars_project_id(environ),
                    "_try_gcloud_config_project_id")

TryGcloudConfigProjectId ==
    /\ pc = "_try_gcloud_config_project_id"
    /\ \E result \in GcloudRuns :
        LET answer == _try_gcloud_config_project_id(result)
        IN Detected(<<Read("gcloud_config", answer.value,
                           IF result.raises # None THEN result.raises
                           ELSE IF result.returncode # 0
                           THEN Exc("returncode", <<>>)
                           ELSE None)>>,
                    answer, "_try_metadata_service_project_id")

TryMetadataServiceProjectId ==
    /\ pc = "_try_metadata_service_project_id"
    /\ \E response \in MetadataResponses :
        LET answer == _try_metadata_service_project_id(response)
        IN Detected(<<Read("metadata_service", answer.value,
                           IF response.raises # None THEN response.raises
                           ELSE IF response.status_code # 200
                           THEN Exc("status_code", <<>>)
                           ELSE None)>>,
                    answer, "raise")

\* a method of _setup_credentials has answered
Obtained(read, result, next_method) ==
    /\ consulted' = Append(consulted, read)
    /\ IF result.raises # None
       THEN Abort(result.raises.type) /\ UNCHANGED credentials
       ELSE IF result.value # None
       THEN /\ credentials' = result.value
            /\ pc' = "_initialize_client"
            /\ UNCHANGED raised
       ELSE pc' = next_method /\ UNCHANGED <<credentials, raised>>
    /\ UNCHANGED <<project_id, client>>
    /\ UNCHANGED svars

TryCredentialsFile ==
    /\ pc = "_try_credentials_file"
    /\ \E credentials_path \in CredentialPaths :
       \E file \in IF Truthy(credentials_path) THEN KeyFiles
                    ELSE {File(FALSE, Raises("FileNotFoundError"))} :
        Obtained(Read("credentials_path",
                      [path |-> credentials_path, file |-> file], None),
                 _try_credentials_file(credentials_path, file),
                 "_try_provided_credentials")

TryProvidedCredentials ==
    /\ pc = "_try_provided_credentials"
    /\ \E credentials_arg \in CredentialArgs :
        Obtained(Read("credentials", credentials_arg, None),
                 _try_provided_credentials(credentials_arg),
                 "_try_framework_credentials")

TryFrameworkCredentials ==
    /\ pc = "_try_framework_credentials"
    /\ \E lookup \in FrameworkCredentialLookups :
        LET answer == _try_framework_credentials(lookup)
        IN Obtained(Read("framework_credentials", answer.value,
                         IF lookup.path.raises # None THEN lookup.path.raises
                         ELSE IF Truthy(lookup.path.value) /\ lookup.file.exists
                         THEN lookup.file.load.raises
                         ELSE None),
                    answer, "_try_default_credentials")

TryDefaultCredentials ==
    /\ pc = "_try_default_credentials"
    /\ \E found \in DefaultCredentials :
        Obtained(Read("default_credentials", found.value, found.raises),
                 _try_default_credentials(found), "_initialize_client")

\* _initialize_client and the rest of __init__
InitializeClient ==
    /\ pc = "_initialize_client"
    /\ \E created \in ClientCreations, tested \in ConnectionTests :
        LET answer == _initialize_client(created, tested)
        IN /\ client' = created.value
           /\ IF answer.raises # None
              THEN Abort(answer.raises.type)
              ELSE pc' = "done" /\ UNCHANGED raised
    /\ UNCHANGED <<project_id, credentials, consulted>>
    /\ UNCHANGED svars

\* ----------------------------------------------------------------- Init
\* __init__ has returned: SecretManagerService(project_id="test-project")
\* with default credentials
Constructed ==
    /\ pc = "done"
    /\ project_id = Str(<<PROJECT>>)
    /\ credentials = Credentials("default_credentials")
    /\ client = Arg("SecretManagerServiceClient", <<"client">>)
    /\ consulted =
          <<Read("constructor_parameter", Str(<<PROJECT>>), None),
            Read("credentials_path",
                 [path |-> None, file |-> File(FALSE, Raises("FileNotFoundError"))],
                 None),
            Read("credentials", None, None),
            Read("framework_credentials", None, None),
            Read("default_credentials", Credentials("default_credentials"),
                 None)>>
    /\ raised = None

Init ==
    /\ enable_cache \in BOOLEAN
    /\ cache_ttl_seconds \in TTLs
    /\ cache = << >>
    /\ now = 0
    /\ secrets \in [Names -> InitialSecrets]
    /\ ncalls = 0
    /\ last = Call("init", <<>>, NoVersion, "", <<>>, TRUE, None, 0, FALSE, {})
    /\ Constructed

\* -------------------------------------------------------------- actions
\* one more service call, within the run's budget
Counted == ncalls < MaxCalls /\ ncalls' = ncalls + 1 /\ UNCHANGED cvars

\* the clock advances between calls
Tick ==
    /\ now < MaxTime
    /\ now' = now + 1
    /\ UNCHANGED <<enable_cache, cache_ttl_seconds, cache, secrets, ncalls,
                   last>>
    /\ UNCHANGED cvars

\* what the backend call of an operation is made to raise, None when it is
\* left to answer
Outages == {None, ServiceUnavailable}

\* get_secret(secret_name, version); failure: what the backend call raises
get_secret(secret_name, version, failure) ==
    LET cache_key == _get_cache_key(secret_name, version)
        cached_response == _get_from_cache(cache, cache_key, now)
        looked == _get_from_cache_store(cache, cache_key, now)
        version_path == _get_secret_version_path(secret_name, version)
        response == IF failure # None THEN Failed(failure)
                    ELSE access_secret_version(version_path)
    IN /\ IF cached_response # None
          THEN /\ cache' = looked
               /\ last' = Call("get_secret", secret_name, version, "",
                               cache_key, TRUE, cached_response, 0, TRUE,
                               Removed(cache, looked))
          ELSE IF response.ok
          THEN LET secret_response ==
                       SecretResponse(secret_name, response.data,
                                      LastSegment(response.name))
                   stored == _put_in_cache(looked, cache_key,
                                           secret_response, now)
               IN /\ cache' = stored
                  /\ last' = Call("get_secret", secret_name, version, "",
                                  cache_key, TRUE, secret_response, 1, FALSE,
                                  Removed(cache, stored))
          ELSE /\ cache' = looked
               /\ last' = Call("get_secret", secret_name, version, "",
                               cache_key, FALSE,
                               Raised(response.error, "secret retrieval",
                                      [secret_name |-> secret_name, version |-> version]),
                               1, FALSE, Removed(cache, looked))
       /\ UNCHANGED <<enable_cache, cache_ttl_seconds, now, secrets>>

GetSecret ==
    /\ Counted
    /\ \E secret_name \in Names, version \in VersionInputs,
          failure \in Outages :
           get_secret(secret_name, version, failure)

\* backend state after one version of secret id changes state
SetState(id, n, state) ==
    [secrets EXCEPT ![id].versions[n] =
        [value |-> IF state = "DESTROYED" THEN "" ELSE @.value,
         state |-> state]]

\* Disable/Enable/DestroySecretVersion RPC on a version path: the result,
\* and the backend afterwards
ChangeVersionState(path, target) ==
    LET id == path[4]
        n == IF path[6] = LATEST THEN 0 ELSE ResolveVersion(id, path[6])
    IN IF ~SecretExists(id) \/ n = 0
       THEN [ok |-> FALSE, error |-> NotFound, secrets |-> secrets]
       ELSE IF secrets[id].versions[n].state = "DESTROYED"
       THEN [ok |-> FALSE, error |-> VersionDestroyed,
             secrets |-> secrets]
       ELSE [ok |-> TRUE, secrets |-> SetState(id, n, target)]

\* AddSecretVersion RPC on a secret path
backend_add_secret_version(path, data) ==
    LET id == path[4]
    IN IF ~SecretExists(id)
       THEN [ok |-> FALSE, error |-> NotFound, secrets |-> secrets]
       ELSE LET n == Len(secrets[id].versions) + 1
            IN [ok |-> TRUE,
                name |-> _get_secret_version_path(id, VersionStr(n)),
                secrets |-> [secrets EXCEPT ![id].versions =
                    Append(@, [value |-> data, state |-> "ENABLED"])]]

\* CreateSecret RPC
backend_create_secret(secret_id) ==
    IF secret_id \notin Names
    THEN [ok |-> FALSE, error |-> InvalidArgument, secrets |-> secrets]
    ELSE IF secrets[secret_id].exists
    THEN [ok |-> FALSE, error |-> AlreadyExists, secrets |-> secrets]
    ELSE [ok |-> TRUE, name |-> _get_secret_path(secret_id),
          secrets |-> [secrets EXCEPT ![secret_id].exists = TRUE]]

\* DeleteSecret RPC on a secret path
backend_delete_secret(path) ==
    IF ~SecretExists(path[4])
    THEN [ok |-> FALSE, error |-> NotFound, secrets |-> secrets]
    ELSE [ok |-> TRUE, secrets |-> [secrets EXCEPT ![path[4]] = NoSecret]]

\* secret_name of SecretCreateRequest / SecretVersionCreateRequest after
\* validate_secret_name
validate_secret_name(v) == Strip(v)

\* create_secret(request): two backend calls, the secret then its version;
\* failing = 0: neither call fails, 1: the first raises failure, 2: the
\* second raises failure
create_secret(name_input, secret_value, failing, failure) ==
    LET secret_name == validate_secret_name(name_input)
        secret == IF failing = 1 THEN Failed(failure)
                  ELSE backend_create_secret(secret_name)
    IN /\ IF ~secret.ok
          THEN /\ secrets' = secrets
               /\ last' = Call("create_secret", name_input, NoVersion,
                               "", <<>>, FALSE,
                               Raised(secret.error, "secret creation",
                                      [secret_name |-> secret_name]),
                               1, FALSE, {})
          ELSE IF failing = 2
          THEN /\ secrets' = secret.secrets
               /\ last' = Call("create_secret", name_input, NoVersion,
                               "", <<>>, FALSE,
                               Raised(failure, "secret creation",
                                      [secret_name |-> secret_name]),
                               2, FALSE, {})
          ELSE /\ secrets' =
                     [secret.secrets EXCEPT ![secret_name].versions =
                         <<[value |-> secret_value, state |-> "ENABLED"]>>]
               /\ last' = Call("create_secret", name_input, NoVersion,
                               "", <<>>, TRUE,
                               [secret_name |-> secret_name,
                                version |-> VersionStr(1)], 2, FALSE, {})
       /\ UNCHANGED <<enable_cache, cache_ttl_seconds, cache, now>>

CreateSecret ==
    /\ Counted
    /\ \E name_input \in NameInputs, secret_value \in Values,
          failing \in 0..2 :
           create_secret(name_input, secret_value, failing, ServiceUnavailable)

\* add_secret_version(request)
add_secret_version(name_input, secret_value, failure) ==
    LET secret_name == validate_secret_name(name_input)
        secret_path == _get_secret_path(secret_name)
        version == IF failure # None THEN Failed(failure)
                   ELSE backend_add_secret_version(secret_path, secret_value)
        invalidated == _invalidate_cache(cache, secret_name, LATEST)
    IN /\ secret_name \in Names
            => Len(secrets[secret_name].versions) < MaxVersions
       /\ IF version.ok
          THEN /\ secrets' = version.secrets
               /\ cache' = invalidated
               /\ last' = Call("add_secret_version", name_input, NoVersion,
                               secret_value, <<>>, TRUE,
                               [secret_name |-> secret_name,
                                version |-> LastSegment(version.name)],
                               1, FALSE, Removed(cache, invalidated))
          ELSE /\ UNCHANGED <<secrets, cache>>
               /\ last' = Call("add_secret_version", name_input, NoVersion,
                               "", <<>>, FALSE,
                               Raised(version.error, "secret version creation",
                                      [secret_name |-> secret_name]),
                               1, FALSE, {})
       /\ UNCHANGED <<enable_cache, cache_ttl_seconds, now>>

AddSecretVersion ==
    /\ Counted
    /\ \E name_input \in VersionedInputs, secret_value \in Values,
          failure \in Outages :
           add_secret_version(name_input, secret_value, failure)

\* delete_secret that invalidates before the backend call
delete_secret_invalidates_first(secret_name, failure) ==
    LET deleted == IF failure # None THEN Failed(failure)
                   ELSE backend_delete_secret(_get_secret_path(secret_name))
        invalidated == _invalidate_cache(cache, secret_name, NoVersion)
    IN /\ cache' = invalidated
       /\ secrets' = IF deleted.ok THEN deleted.secrets ELSE secrets
       /\ last' = IF deleted.ok
                  THEN Call("delete_secret", secret_name, NoVersion, "", <<>>,
                            TRUE, [success |-> TRUE], 1, FALSE,
                            Removed(cache, invalidated))
                  ELSE Call("delete_secret", secret_name, NoVersion, "", <<>>,
                            FALSE,
                            Raised(deleted.error, "secret deletion",
                                   [secret_name |-> secret_name]),
                            1, FALSE, Removed(cache, invalidated))
       /\ UNCHANGED <<enable_cache, cache_ttl_seconds, now>>

\* delete_secret(secret_name)
delete_secret(secret_name, failure) ==
    LET secret_path == _get_secret_path(secret_name)
        deleted == IF failure # None THEN Failed(failure)
                   ELSE backend_delete_secret(secret_path)
        invalidated == _invalidate_cache(cache, secret_name, NoVersion)
    IN /\ IF deleted.ok
          THEN /\ secrets' = deleted.secrets
               /\ cache' = invalidated
               /\ last' = Call("delete_secret", secret_name, NoVersion, "",
                               <<>>, TRUE, [success |-> TRUE], 1, FALSE,
                               Removed(cache, invalidated))
          ELSE /\ UNCHANGED <<secrets, cache>>
               /\ last' = Call("delete_secret", secret_name, NoVersion, "",
                               <<>>, FALSE,
                               Raised(deleted.error, "secret deletion",
                                      [secret_name |-> secret_name]),
                               1, FALSE, {})
       /\ UNCHANGED <<enable_cache, cache_ttl_seconds, now>>

DeleteSecret ==
    /\ Counted
    /\ \E secret_name \in Names, failure \in Outages :
           delete_secret(secret_name, failure)

\* disable_secret_version(secret_name, version): the backend path is built
\* from the stripped name, the cache is invalidated under the name as passed
disable_secret_version(secret_name, version, failure) ==
    LET normalized_name == Strip(secret_name)
        version_path == _get_secret_version_path(normalized_name, version)
        disabled == IF failure # None THEN Failed(failure)
                    ELSE ChangeVersionState(version_path, "DISABLED")
        invalidated == _invalidate_cache(cache, secret_name, version)
    IN /\ IF disabled.ok
          THEN /\ secrets' = disabled.secrets
               /\ cache' = invalidated
               /\ last' = Call("disable_secret_version", secret_name, version,
                               "", <<>>, TRUE, [success |-> TRUE], 1, FALSE,
                               Removed(cache, invalidated))
          ELSE /\ UNCHANGED <<secrets, cache>>
               /\ last' = Call("disable_secret_version", secret_name, version,
                               "", <<>>, FALSE,
                               Raised(disabled.error, "secret version disable",
                                      [secret_name |-> secret_name, version |-> version]),
                               1, FALSE, {})
       /\ UNCHANGED <<enable_cache, cache_ttl_seconds, now>>

DisableSecretVersion ==
    /\ Counted
    /\ \E secret_name \in VersionedInputs, version \in VersionInputs,
          failure \in Outages :
           disable_secret_version(secret_name, version, failure)

\* enable_secret_version(secret_name, version): no cache invalidation
enable_secret_version(secret_name, version, failure) ==
    LET version_path == _get_secret_version_path(secret_name, version)
        enabled == IF failure # None THEN Failed(failure)
                   ELSE ChangeVersionState(version_path, "ENABLED")
    IN /\ IF enabled.ok
          THEN /\ secrets' = enabled.secrets
               /\ last' = Call("enable_secret_version", secret_name, version,
                               "", <<>>, TRUE, [success |-> TRUE], 1, FALSE,
                               {})
          ELSE /\ UNCHANGED secrets
               /\ last' = Call("enable_secret_version", secret_name, version,
                               "", <<>>, FALSE,
                               Raised(enabled.error, "secret version enable",
                                      [secret_name |-> secret_name, version |-> version]),
                               1, FALSE, {})
       /\ UNCHANGED <<enable_cache, cache_ttl_seconds, cache, now>>

EnableSecretVersion ==
    /\ Counted
    /\ \E secret_name \in Versioned, version \in VersionInputs,
          failure \in Outages :
           enable_secret_version(secret_name, version, failure)

\* destroy_secret_version(secret_name, version)
destroy_secret_version(secret_name, version, failure) ==
    LET version_path == _get_secret_version_path(secret_name, version)
        destroyed == IF failure # None THEN Failed(failure)
                     ELSE ChangeVersionState(version_path, "DESTROYED")
        invalidated == _invalidate_cache(cache, secret_name, version)
    IN /\ IF destroyed.ok
          THEN /\ secrets' = destroyed.secrets
               /\ cache' = invalidated
               /\ last' = Call("destroy_secret_version", secret_name, version,
                               "", <<>>, TRUE, [success |-> TRUE], 1, FALSE,
                               Removed(cache, invalidated))
          ELSE /\ UNCHANGED <<secrets, cache>>
               /\ last' = Call("destroy_secret_version", secret_name, version,
                               "", <<>>, FALSE,
                               Raised(destroyed.error, "secret version destroy",
                                      [secret_name |-> secret_name, version |-> version]),
                               1, FALSE, {})
       /\ UNCHANGED <<enable_cache, cache_ttl_seconds, now>>

DestroySecretVersion ==
    /\ Counted
    /\ \E secret_name \in Versioned, version \in VersionInputs,
          failure \in Outages :
           destroy_secret_version(secret_name, version, failure)

\* clear_cache()
ClearCache ==
    /\ Counted
    /\ cache' = clear_cache_store(cache)
    /\ last' = Call("clear_cache", <<>>, NoVersion, "", <<>>, TRUE, None,
                    0, FALSE, Removed(cache, clear_cache_store(cache)))
    /\ UNCHANGED <<enable_cache, cache_ttl_seconds, now, secrets>>

\* get_cache_stats()
GetCacheStats ==
    /\ Counted
    /\ last' = Call("get_cache_stats", <<>>, NoVersion, "", <<>>, TRUE,
                    get_cache_stats(cache, now), 0, FALSE, {})
    /\ UNCHANGED <<enable_cache, cache_ttl_seconds, cache, now, secrets>>

Next ==
    \/ Tick
    \/ GetSecret
    \/ CreateSecret
    \/ AddSecretVersion
    \/ DeleteSecret
    \/ DisableSecretVersion
    \/ EnableSecretVersion
    \/ DestroySecretVersion
    \/ ClearCache
    \/ GetCacheStats

\* the service's public operations against the backend
Spec == Init /\ [][Next]_vars

\* ------------------------------------------- the cache primitives alone
CacheKeys ==
    {_get_cache_key(n, v) : n \in Versioned, v \in VersionInputs}
        \cup {_get_cache_key(n, LATEST) : n \in Names}

CacheValues == {SecretResponse(<<"a">>, v, VersionStr(1)) : v \in Values}

\* _put_in_cache(cache_key, value)
PutInCache ==
    /\ Counted
    /\ \E cache_key \in CacheKeys, value \in CacheValues :
        /\ cache' = _put_in_cache(cache, cache_key, value, now)
        /\ last' = Call("_put_in_cache", <<>>, NoVersion, "", cache_key,
                        TRUE, value, 0, FALSE, {})
    /\ UNCHANGED <<enable_cache, cache_ttl_seconds, now, secrets>>

\* _get_from_cache(cache_key)
GetFromCache ==
    /\ Counted
    /\ \E cache_key \in CacheKeys :
        LET looked == _get_from_cache_store(cache, cache_key, now)
        IN /\ cache' = looked
           /\ last' = Call("_get_from_cache", <<>>, NoVersion, "", cache_key,
                           TRUE, _get_from_cache(cache, cache_key, now), 0,
                           FALSE, Removed(cache, looked))
    /\ UNCHANGED <<enable_cache, cache_ttl_seconds, now, secrets>>

\* _invalidate_cache(secret_name, version=None)
InvalidateCache ==
    /\ Counted
    /\ \E secret_name \in Names, version \in VersionInputs \cup {NoVersion} :
        LET invalidated == _invalidate_cache(cache, secret_name, version)
        IN /\ cache' = invalidated
           /\ last' = Call("_invalidate_cache", secret_name, version, "",
                           <<>>, TRUE, None, 0, FALSE,
                           Removed(cache, invalidated))
    /\ UNCHANGED <<enable_cache, cache_ttl_seconds, now, secrets>>

NextCache ==
    \/ Tick
    \/ PutInCache
    \/ GetFromCache
    \/ InvalidateCache
    \/ ClearCache
    \/ GetCacheStats

SpecCache == Init /\ [][NextCache]_vars

\* a service constructed with enable_cache=False, all operations
InitDisabled == Init /\ enable_cache = FALSE

NextDisabled == Next \/ PutInCache \/ GetFromCache \/ InvalidateCache

SpecDisabled == InitDisabled /\ [][NextDisabled]_vars

\* the construction of a service, step by step
InitConstruct ==
    /\ enable_cache = FALSE
    /\ cache_ttl_seconds = MaxTTL
    /\ cache = << >>
    /\ now = 0
    /\ secrets \in [Names -> InitialSecrets]
    /\ ncalls = 0
    /\ last = Call("init", <<>>, NoVersion, "", <<>>, TRUE, None, 0, FALSE, {})
    /\ pc = "_determine_project_id"
    /\ project_id = None
    /\ credentials = None
    /\ client = None
    /\ consulted = <<>>
    /\ raised = None

NextConstruct ==
    \/ DetermineProjectId
    \/ TryFrameworkEnvProjectId
    \/ TryStandardEnvVarsProjectId
    \/ TryGcloudConfigProjectId
    \/ TryMetadataServiceProjectId
    \/ TryCredentialsFile
    \/ TryProvidedCredentials
    \/ TryFrameworkCredentials
    \/ TryDefaultCredentials
    \/ InitializeClient

SpecConstruct == InitConstruct /\ [][NextConstruct]_vars

\* ---------------------------------------------------------- error paths
\* a secret name no secret of the project has
MISSING == <<"z">>

\* _get_metadata_version_count(secret, secret_name): the count, the backend
\* calls it issued and how many of them raised; failing = 2: the first
\* list_secret_versions call raises failure, 3: the second does
_get_metadata_version_count(secret, failing, failure, under_pytest, has_total_size) ==
    LET version_response == IF failing = 2 THEN Failed(failure)
                            ELSE backend_list_secret_versions(secret.name)
        all_versions == IF failing = 3 THEN Failed(failure)
                        ELSE backend_list_secret_versions(secret.name)
    IN IF under_pytest
       THEN [version_count |-> 1, calls |-> 0, failed |-> 0]
       ELSE IF ~version_response.ok
       THEN [version_count |-> 0, calls |-> 1, failed |-> 1]
       ELSE IF has_total_size
       THEN [version_count |-> version_response.total_size, calls |-> 1,
             failed |-> 0]
       ELSE IF ~all_versions.ok
       THEN [version_count |-> 0, calls |-> 2, failed |-> 1]
       ELSE [version_count |-> Len(all_versions.versions), calls |-> 2,
             failed |-> 0]

\* get_secret_metadata(secret_name); failing = 1: the get_secret call raises
\* failure; under_pytest: PYTEST_CURRENT_TEST is set; has_total_size: the
\* list response carries total_size
get_secret_metadata(secret_name, failing, failure, under_pytest, has_total_size) ==
    LET secret == IF failing = 1 THEN Failed(failure)
                  ELSE backend_get_secret(_get_secret_path(secret_name))
        counted == _get_metadata_version_count(secret, failing, failure,
                                               under_pytest, has_total_size)
    IN /\ IF ~secret.ok
          THEN last' = Call("get_secret_metadata", secret_name, NoVersion,
                            "", <<>>, FALSE,
                            Raised(secret.error, "secret metadata retrieval",
                                   [secret_name |-> secret_name]),
                            1, FALSE, {})
          ELSE last' = [Call("get_secret_metadata", secret_name, NoVersion,
                             "", <<>>, TRUE,
                             [secret_name |-> secret_name,
                              version_count |-> counted.version_count],
                             1 + counted.calls, FALSE, {})
                           EXCEPT !.failed = counted.failed]
       /\ UNCHANGED <<enable_cache, cache_ttl_seconds, cache, now, secrets>>

\* a call outside the run's budget of calls: the error paths are taken one
\* call after another on the same service
Uncounted == UNCHANGED ncalls /\ UNCHANGED cvars

\* what a backend call of these operations does: it answers, or it raises
\* one of the errors
Answers == {None} \cup GcpErrors

GetSecretMetadata ==
    /\ Uncounted
    /\ \E secret_name \in Versioned \cup {MISSING}, failing \in 0..3,
          under_pytest \in BOOLEAN, has_total_size \in BOOLEAN :
         \E failure \in IF failing = 0 THEN {None} ELSE GcpErrors :
           get_secret_metadata(secret_name, failing, failure, under_pytest,
                               has_total_size)

\* contexts the mapper is handed: none, an empty one, those of the
\* operations, and one whose version is the empty string
Contexts ==
    {None, EmptyContext}
    \cup {[secret_name |-> secret_name] : secret_name \in Versioned}
    \cup {[secret_name |-> secret_name, version |-> version] :
             secret_name \in Versioned,
             version \in {LATEST, VersionStr(1), <<>>}}
    \cup {[version |-> LATEST], [page_size |-> 100, page_token |-> None]}

\* _map_gcp_exception on any exception and context
MapGcpException ==
    /\ \E e \in GcpErrors, context \in Contexts :
           LET mapped_exception ==
                   _map_gcp_exception(e, "secret retrieval", context)
           IN last' = Call("_map_gcp_exception", <<>>, NoVersion, "", <<>>,
                           TRUE,
                           [exception |-> mapped_exception.type,
                            message |-> mapped_exception.message,
                            cause |-> e, context |-> context],
                           0, FALSE, {})
    /\ UNCHANGED <<enable_cache, cache_ttl_seconds, cache, now, secrets>>
    /\ Uncounted

\* the operations with a backend call that answers or raises any error
GetSecretAnswered ==
    /\ Uncounted
    /\ \E secret_name \in Versioned, version \in VersionInputs,
          failure \in Answers :
           get_secret(secret_name, version, failure)

CreateSecretFails ==
    /\ Uncounted
    /\ \E name_input \in VersionedInputs, failing \in 1..2,
          failure \in GcpErrors :
           create_secret(name_input, "x", failing, failure)

AddSecretVersionFails ==
    /\ Uncounted
    /\ \E name_input \in VersionedInputs, failure \in GcpErrors :
           add_secret_version(name_input, "x", failure)

DeleteSecretFails ==
    /\ Uncounted
    /\ \E secret_name \in Versioned, failure \in GcpErrors :
           delete_secret(secret_name, failure)

DisableSecretVersionFails ==
    /\ Uncounted
    /\ \E secret_name \in Versioned, version \in VersionInputs,
          failure \in GcpErrors :
           disable_secret_version(secret_name, version, failure)

EnableSecretVersionFails ==
    /\ Uncounted
    /\ \E secret_name \in Versioned, version \in VersionInputs,
          failure \in GcpErrors :
           enable_secret_version(secret_name, version, failure)

DestroySecretVersionFails ==
    /\ Uncounted
    /\ \E secret_name \in Versioned, version \in VersionInputs,
          failure \in GcpErrors :
           destroy_secret_version(secret_name, version, failure)

\* a constructed service without cache whose backend calls fail: the mapper
\* and the operations that raise what it returns
InitErrors == InitDisabled /\ cache_ttl_seconds = MaxTTL

NextErrors ==
    \/ MapGcpException
    \/ GetSecretMetadata
    \/ GetSecretAnswered
    \/ CreateSecretFails
    \/ AddSecretVersionFails
    \/ DeleteSecretFails
    \/ DisableSecretVersionFails
    \/ EnableSecretVersionFails
    \/ DestroySecretVersionFails

SpecErrors == InitErrors /\ [][NextErrors]_vars

\* -------------------------------------------------------------- logging
\* {**extra, **safe_context}
Merge(extra, safe_context) ==
    [k \in DOMAIN extra \cup DOMAIN safe_context |->
        IF k \in DOMAIN safe_context THEN safe_context[k] ELSE extra[k]]

\* _get_safe_context that drops the secret_value field only
_get_safe_context_keeps_payload(context) ==
    [k \in DOMAIN context \ {"secret_value"} |-> context[k]]

\* _get_safe_context(context), and the same filter the logging helpers apply
_get_safe_context(context) ==
    [k \in DOMAIN context \ {"secret_value", "payload", "data"} |->
        context[k]]

\* the record _log_operation_start(operation, **context) logs
_log_operation_start(operation, context) ==
    [level |-> "info", msg |-> <<"Starting ", operation>>,
     extra |-> Merge([operation |-> operation, project_id |-> project_id,
                      operation_start_time |-> now],
                     _get_safe_context(context))]

\* the record _log_operation_success(operation, start_time, **context) logs
_log_operation_success(operation, context) ==
    [level |-> "info", msg |-> <<"Successfully completed ", operation>>,
     extra |-> Merge([operation |-> operation, project_id |-> project_id,
                      operation_duration_ms |-> 0,
                      operation_status |-> "success"],
                     _get_safe_context(context))]

\* the record _log_operation_error(operation, start_time, error, **context)
\* logs
_log_operation_error(operation, error, context) ==
    [level |-> "error", msg |-> <<"Failed to complete ", operation>>,
     extra |-> Merge([operation |-> operation, project_id |-> project_id,
                      operation_duration_ms |-> 0,
                      operation_status |-> "error",
                      error_type |-> error.type,
                      error_message |-> str(error)],
                     _get_safe_context(context))]

\* the records _map_gcp_exception(e, operation, context) logs, and the
\* message of the exception it returns
_map_gcp_exception_logs(e, operation, context) ==
    LET safe_context == _get_safe_context(Put(context, "operation", operation))
        mapped_exception == _map_gcp_exception(e, operation, context)
    IN [level |-> "error",
        msg |-> <<"Google Cloud API error during ", operation>>,
        extra |-> Merge([operation |-> operation, gcp_error_type |-> e.type,
                         gcp_error_message |-> str(e),
                         project_id |-> project_id,
                         error_mapping |-> "gcp_to_custom"], safe_context),
        mapped |-> Merge([operation |-> operation,
                          original_exception |-> e.type,
                          mapped_exception |-> mapped_exception.type,
                          project_id |-> project_id], safe_context),
        message |-> mapped_exception.message]

\* two contexts of an operation on a secret that agree on every field but
\* secret_value, payload and data, which each of them may carry
ContextPairs ==
    {[first |-> Merge(context, [k \in DOMAIN sensitive |-> "x"]),
      second |-> Merge(context, sensitive)] :
        context \in {[secret_name |-> <<"a">>],
                     [secret_name |-> <<"a">>, version |-> LATEST]},
        sensitive \in UNION {[fields -> Values] :
                        fields \in SUBSET {"secret_value", "payload", "data"}}}

\* what a helper logs for each context of a pair, kept side by side
Logged(helper, pair, first, second) ==
    /\ last' = Call(helper, <<>>, NoVersion, "", <<>>, TRUE,
                    [contexts |-> pair, first |-> first, second |-> second],
                    0, FALSE, {})
    /\ UNCHANGED <<enable_cache, cache_ttl_seconds, cache, now, secrets>>
    /\ Uncounted

Operations == {"secret creation", "secret retrieval"}

LogOperationStart ==
    \E operation \in Operations, pair \in ContextPairs :
        Logged("_log_operation_start", pair,
               _log_operation_start(operation, pair.first),
               _log_operation_start(operation, pair.second))

LogOperationSuccess ==
    \E operation \in Operations, pair \in ContextPairs :
        Logged("_log_operation_success", pair,
               _log_operation_success(operation, pair.first),
               _log_operation_success(operation, pair.second))

LogOperationError ==
    \E operation \in Operations, pair \in ContextPairs,
       error \in {ServiceUnavailable} :
        Logged("_log_operation_error", pair,
               _log_operation_error(operation, error, pair.first),
               _log_operation_error(operation, error, pair.second))

MapGcpExceptionLogs ==
    \E operation \in Operations, pair \in ContextPairs,
       e \in {NotFound, ServiceUnavailable} :
        Logged("_map_gcp_exception", pair,
               _map_gcp_exception_logs(e, operation, pair.first),
               _map_gcp_exception_logs(e, operation, pair.second))

\* the logging helpers and the mapper of a constructed service
NextLogs ==
    \/ LogOperationStart
    \/ LogOperationSuccess
    \/ LogOperationError
    \/ MapGcpExceptionLogs

SpecLogs == InitErrors /\ [][NextLogs]_vars

\* -------------------------------------------------------------- listings
\* list_secret_versions(secret_name): one ListSecretVersions call on the
\* secret's path
list_secret_versions(secret_name, failure) ==
    LET secret_path == _get_secret_path(secret_name)
        response == IF failure # None THEN Failed(failure)
                    ELSE backend_list_secret_versions(secret_path)
    IN /\ IF response.ok
          THEN last' = Call("list_secret_versions", secret_name, NoVersion,
                            "", <<>>, TRUE,
                            [secret_name |-> secret_name,
                             version_count |-> Len(response.versions),
                             total_size |-> response.total_size],
                            1, FALSE, {})
          ELSE last' = Call("list_secret_versions", secret_name, NoVersion,
                            "", <<>>, FALSE,
                            Raised(response.error, "secret version listing",
                                   [secret_name |-> secret_name]),
                            1, FALSE, {})
       /\ UNCHANGED <<enable_cache, cache_ttl_seconds, cache, now, secrets>>

ListSecretVersions ==
    /\ Counted
    /\ \E secret_name \in Names \cup {MISSING}, failure \in Outages :
           list_secret_versions(secret_name, failure)

\* _get_version_count(secret, secret_name): the same steps as
\* _get_metadata_version_count, a failed listing counting as 0
_get_version_count_relists(secret, failing, failure, under_pytest, has_total_size) ==
    LET counted == _get_metadata_version_count(secret, failing, failure, under_pytest, has_total_size)
    IN IF under_pytest THEN counted ELSE [counted EXCEPT !.calls = @ + 1]

_get_version_count(secret, failing, failure, under_pytest, has_total_size) ==
    _get_metadata_version_count(secret, failing, failure, under_pytest, has_total_size)

RECURSIVE Total(_, _, _)
Total(f, field, S) ==
    IF S = {} THEN 0
    ELSE LET x == CHOOSE y \in S : TRUE
         IN f[x][field] + Total(f, field, S \ {x})

\* list_secrets(): one ListSecrets call, then _get_version_count for each
\* secret of the response; failing = 1: the ListSecrets call raises failure;
\* broken: the secrets whose first version listing raises failure
list_secrets(failing, failure, broken, under_pytest, has_total_size) ==
    LET listed == {id \in Names : SecretExists(id)}
        counted == [id \in listed |->
                      _get_version_count([name |-> _get_secret_path(id)],
                                         IF id \in broken THEN 2 ELSE 0,
                                         failure, under_pytest, has_total_size)]
    IN /\ IF failing = 1
          THEN last' = Call("list_secrets", <<>>, NoVersion, "", <<>>, FALSE,
                            Raised(failure, "secret listing", EmptyContext),
                            1, FALSE, {})
          ELSE last' = [Call("list_secrets", <<>>, NoVersion, "", <<>>, TRUE,
                             [listed |-> listed,
                              version_counts |->
                                  [id \in listed |-> counted[id].version_count]],
                             1 + Total(counted, "calls", listed), FALSE, {})
                          EXCEPT !.failed = Total(counted, "failed", listed)]
       /\ UNCHANGED <<enable_cache, cache_ttl_seconds, cache, now, secrets>>

ListSecrets ==
    /\ Counted
    /\ \E failing \in 0..1, broken \in SUBSET Names,
          under_pytest \in BOOLEAN, has_total_size \in BOOLEAN :
           list_secrets(failing, ServiceUnavailable, broken, under_pytest,
                        has_total_size)

GetSecretMetadataCounted ==
    /\ Counted
    /\ \E secret_name \in Names \cup {MISSING}, failing \in 0..3,
          under_pytest \in BOOLEAN, has_total_size \in BOOLEAN :
           get_secret_metadata(secret_name, failing, ServiceUnavailable,
                               under_pytest, has_total_size)

\* every public operation of the service, on a service with or without cache
InitCalls == Init /\ cache_ttl_seconds = MaxTTL

NextCalls == Next \/ ListSecrets \/ ListSecretVersions \/ GetSecretMetadataCounted

SpecCalls == InitCalls /\ [][NextCalls]_vars

\* ------------------------------------------------------ version workflow
\* the version management workflow on one secret of a project without
\* secrets: create it, add versions, disable version 1, and read at any
\* point; the backend answers every call
InitWorkflow ==
    /\ enable_cache \in BOOLEAN
    /\ cache_ttl_seconds \in TTLs
    /\ cache = << >>
    /\ now = 0
    /\ secrets = [id \in Names |-> NoSecret]
    /\ ncalls = 0
    /\ last = Call("init", <<>>, NoVersion, "", <<>>, TRUE, None, 0, FALSE, {})
    /\ Constructed

CreateSecretFirst ==
    /\ Uncounted
    /\ \E secret_value \in Values :
           create_secret(<<"a">>, secret_value, 0, None)

AddSecretVersionNext ==
    /\ Uncounted
    /\ \E secret_value \in Values :
           add_secret_version(<<"a">>, secret_value, None)

GetSecretBetween ==
    /\ Uncounted
    /\ \E version \in VersionInputs : get_secret(<<"a">>, version, None)

DisableFirstVersion ==
    /\ Uncounted
    /\ disable_secret_version(<<"a">>, VersionStr(1), None)

NextWorkflow ==
    \/ Tick
    \/ CreateSecretFirst
    \/ AddSecretVersionNext
    \/ GetSecretBetween
    \/ DisableFirstVersion

SpecWorkflow == InitWorkflow /\ [][NextWorkflow]_vars

\* ------------------------------------------------- parameter requests
\* a string as runs of one character; U+00E9 and U+20AC are characters of
\* two and three UTF-8 bytes, é and € their six-character escapes
Run(ch, n) == [ch |-> ch, n |-> n]

\* the number of bytes str.encode("utf-8") gives one character
Width(ch) ==
    CASE ch = "U+00E9" -> 2
      [] ch = "U+20AC" -> 3
      [] ch \in {"\\u00e9", "\\u20ac"} -> 6
      [] OTHER -> 1

\* len(data_str.encode("utf-8"))
RECURSIVE Utf8Len(_)
Utf8Len(s) ==
    IF s = <<>> THEN 0 ELSE Width(Head(s).ch) * Head(s).n + Utf8Len(Tail(s))

\* len(data_str)
RECURSIVE StrLen(_)
StrLen(s) == IF s = <<>> THEN 0 ELSE Head(s).n + StrLen(Tail(s))

QUOTE == Run("\"", 1)
PLAIN == {"a", "U+00E9", "U+20AC"}

\* json.dumps({"k": value}), non-ASCII characters escaped (ensure_ascii)
json_dumps(value) ==
    <<Run("{", 1), QUOTE, Run("k", 1), QUOTE, Run(":", 1), Run(" ", 1), QUOTE>>
    \o [i \in 1..Len(value) |->
           Run(CASE value[i].ch = "U+00E9" -> "\\u00e9"
                 [] value[i].ch = "U+20AC" -> "\\u20ac"
                 [] OTHER -> value[i].ch, value[i].n)]
    \o <<QUOTE, Run("}", 1)>>

\* a double-quoted string that ends where the text ends
Quoted(s) ==
    \/ s = <<Run("\"", 2)>>
    \/ /\ Len(s) >= 3 /\ s[1] = QUOTE /\ s[Len(s)] = QUOTE
       /\ \A i \in 2..(Len(s) - 1) : s[i].ch \in PLAIN

\* json.loads(data) returns: over these characters the documents are a
\* quoted string and the empty object
json_loads_returns(s) == Quoted(s) \/ s = <<Run("{", 1), Run("}", 1)>>

\* yaml.safe_load(data) returns: the empty document, a plain scalar, a
\* quoted string, or a flow mapping closed at the end of the text
yaml_safe_load_returns(s) ==
    \/ s = <<>>
    \/ s[1].ch \in PLAIN
    \/ Quoted(s)
    \/ /\ Len(s) >= 2 /\ s[1] = Run("{", 1) /\ s[Len(s)] = Run("}", 1)
       /\ \A i \in 2..(Len(s) - 1) : s[i].ch \in PLAIN

_convert_to_string(data) ==
    IF data.type = "dict" THEN json_dumps(data.value)
    ELSE IF data.type = "str" THEN data.value
    ELSE <<Run("1", 1)>>

Valid(v) == [ok |-> TRUE, value |-> v, error |-> ""]
Invalid(message) == [ok |-> FALSE, value |-> None, error |-> message]

\* _validate_size that measures characters
_validate_size_in_characters(data_str) ==
    IF StrLen(data_str) > 1048576
    THEN Invalid("Parameter data cannot exceed 1 MiB") ELSE Valid(None)

_validate_size(data_str) ==
    IF Utf8Len(data_str) > 1048576
    THEN Invalid("Parameter data cannot exceed 1 MiB") ELSE Valid(None)

_validate_json_data(data) ==
    IF data.type = "dict" THEN Valid(None)
    ELSE IF data.type = "str"
    THEN (IF json_loads_returns(data.value) THEN Valid(None)
          ELSE Invalid("Invalid JSON format"))
    ELSE Invalid("JSON format requires string or dict data")

_validate_yaml_data(data) ==
    IF data.type = "dict" THEN Valid(None)
    ELSE IF data.type = "str"
    THEN (IF yaml_safe_load_returns(data.value) THEN Valid(None)
          ELSE Invalid("Invalid YAML format"))
    ELSE Invalid("YAML format requires string or dict data")

\* validate_data(cls, v, info); info_data: the fields validated before data
validate_data(v, info_data) ==
    LET format_type == Get(info_data, "format_type", "UNFORMATTED")
        data_str == _convert_to_string(v)
        sized == _validate_size(data_str)
        formatted == IF format_type = "JSON" THEN _validate_json_data(v)
                     ELSE IF format_type = "YAML" THEN _validate_yaml_data(v)
                     ELSE Valid(None)
    IN IF ~sized.ok THEN sized
       ELSE IF ~formatted.ok THEN formatted
       ELSE Valid(v)

isspace(v) == v # <<>> /\ \A i \in 1..Len(v) : v[i] = " "

\* validate_parameter_name and validate_version_name; min_length=1 rejects
\* the empty string before them
validate_name(v, field) ==
    IF v = <<>> \/ isspace(v)
    THEN Invalid(field \o " name cannot be empty or whitespace")
    ELSE Valid(Strip(v))

validate_format_type(v) ==
    IF v \notin {"UNFORMATTED", "JSON", "YAML"}
    THEN Invalid("Format type must be one of the valid formats")
    ELSE Valid(v)

\* ParameterVersionCreateRequest(...): the fields are validated in the order
\* of their declaration, parameter_name, version_name, data, format_type,
\* each validator seeing in info.data the fields validated before it
ParameterVersionCreateRequest(parameter_name, version_name, data, format_type) ==
    LET name == validate_name(parameter_name, "Parameter")
        version == validate_name(version_name, "Version")
        named == IF name.ok THEN Put(EmptyContext, "parameter_name", name.value)
                 ELSE EmptyContext
        info_data == IF version.ok THEN Put(named, "version_name", version.value)
                     ELSE named
        validated == validate_data(data, info_data)
        format == validate_format_type(format_type)
        errors == {name.error, version.error, validated.error, format.error} \ {""}
    IN [built |-> errors = {}, errors |-> errors,
        parameter_name |-> parameter_name, version_name |-> version_name,
        data |-> data, format_type |-> format_type]

\* data arguments: text around the size limit in characters of one, two and
\* three bytes, JSON and YAML documents and texts that are neither, a dict
\* around the limit, and a number
DataInputs ==
    {Str(<<Run(c[1], c[2])>>) :
        c \in {<<"a", 1>>, <<"a", 1048576>>, <<"a", 1048577>>,
               <<"U+00E9", 524288>>, <<"U+00E9", 524289>>,
               <<"U+20AC", 349525>>, <<"U+20AC", 349526>>}}
    \cup {Str(<<QUOTE, Run("a", n), QUOTE>>) : n \in {1, 1048574, 1048575}}
    \cup {Str(<<>>), Str(<<QUOTE, Run("a", 1)>>), Str(<<Run("{", 1)>>),
          Str(<<Run("{", 1), Run("}", 1)>>), Str(<<Run("{", 1), Run("a", 1)>>),
          Str(<<Run("}", 1)>>)}
    \cup {Arg("dict", <<Run(c[1], c[2])>>) :
        c \in {<<"a", 1048567>>, <<"a", 1048568>>, <<"U+00E9", 174761>>,
               <<"U+00E9", 174762>>}}
    \cup {Arg("int", <<>>)}

BuildParameterVersionCreateRequest ==
    /\ Uncounted
    /\ \E parameter_name \in {<<"p">>, <<" ", "p", " ">>, <<" ">>},
          version_name \in {<<"v">>, <<>>}, data \in DataInputs,
          format_type \in {"UNFORMATTED", "JSON", "YAML", "XML"} :
         LET request == ParameterVersionCreateRequest(parameter_name,
                                               version_name, data, format_type)
         IN last' = Call("ParameterVersionCreateRequest", <<>>, NoVersion, "",
                         <<>>, request.built, request, 0, FALSE, {})
    /\ UNCHANGED <<enable_cache, cache_ttl_seconds, cache, now, secrets>>

SpecRequests == InitErrors /\ [][BuildParameterVersionCreateRequest]_vars

\* ---------------------------------------------------------- cloud tasks
\* what client.create_task raises, None when it returns: the errors of the
\* service's tests, and the client library's NotFound, whose text is the
\* status code and the server's message
TaskFailures ==
    {None, Exc("Exception", <<"NOT_FOUND", ": Queue not found">>),
     Exc("Exception", <<"INVALID_ARGUMENT", ": Invalid task">>),
     Exc("Exception", <<"Some other error">>),
     Exc("NotFound", <<"Queue does not exist.">>)}

\* payloads of a task request: dicts, one of them holding a value json.dumps
\* cannot serialise, and values put in the field after validation
Payloads ==
    {Arg("dict", <<>>), Arg("dict", <<"k">>), Arg("dict", <<"object">>),
     Arg("str", <<"k">>), Arg("list", <<>>)}

TaskRequests ==
    [queue_name : {<<"q1">>, <<"q2">>}, task_name : {None, Str(<<"t">>)},
     payload : Payloads, http_method : {"POST", "GET"}]

\* create_task(task_request); failure: what client.create_task raises. The
\* payload check, json.dumps and the client call are inside the try block,
\* whose handler picks the exception by the text of what was raised
create_task(task_request, failure) ==
    LET unserialisable == task_request.payload.value = <<"object">>
        e == IF task_request.payload.type # "dict"
             THEN Exc("InvalidTaskPayloadException",
                      <<"Task payload must be a dictionary">>)
             ELSE IF unserialisable
             THEN Exc("TypeError", <<"not JSON serializable">>)
             ELSE failure
        sent == IF task_request.payload.type = "dict" /\ ~unserialisable
                THEN 1 ELSE 0
        exception ==
            IF e = None THEN ""
            ELSE IF Contains(str(e), <<"NOT_FOUND">>) THEN "QueueNotFoundException"
            ELSE IF Contains(str(e), <<"INVALID_ARGUMENT">>)
            THEN "InvalidTaskPayloadException"
            ELSE "TaskCreationException"
    IN /\ last' = Call("create_task", task_request.queue_name, NoVersion, "",
                       <<>>, exception = "",
                       [exception |-> exception, request |-> task_request,
                        failure |-> failure], sent, FALSE, {})
       /\ UNCHANGED <<enable_cache, cache_ttl_seconds, cache, now, secrets>>

CreateTask ==
    /\ Uncounted
    /\ \E task_request \in TaskRequests, failure \in TaskFailures :
           create_task(task_request, failure)

SpecTasks == InitErrors /\ [][CreateTask]_vars

\* ------------------------------------------------- cache keys of strings
\* names and versions the service is handed as they come: it checks neither
\* for the separator of the cache key
KeyNames == {<<"a">>, <<"a", "b">>, <<"a", ":", "b">>}
KeyVersions == {<<"1">>, <<"b", ":", "1">>}

\* get_secret's use of the cache on a miss: the response of (secret_name,
\* version) is stored under its key
CacheResponse ==
    /\ Uncounted
    /\ \E secret_name \in KeyNames, version \in KeyVersions :
        LET cache_key == _get_cache_key(secret_name, version)
            value == SecretResponse(secret_name, "x", version)
        IN /\ cache' = _put_in_cache(cache, cache_key, value, now)
           /\ last' = Call("_put_in_cache", secret_name, version, "",
                           cache_key, TRUE, value, 0, FALSE, {})
    /\ UNCHANGED <<enable_cache, cache_ttl_seconds, now, secrets>>

\* get_secret's lookup of (secret_name, version)
LookUpResponse ==
    /\ Uncounted
    /\ \E secret_name \in KeyNames, version \in KeyVersions :
        LET cache_key == _get_cache_key(secret_name, version)
            looked == _get_from_cache_store(cache, cache_key, now)
        IN /\ cache' = looked
           /\ last' = Call("_get_from_cache", secret_name, version, "",
                           cache_key, TRUE,
                           _get_from_cache(cache, cache_key, now), 0, FALSE,
                           Removed(cache, looked))
    /\ UNCHANGED <<enable_cache, cache_ttl_seconds, now, secrets>>

\* delete_secret's invalidation of every version of secret_name; the names
\* the removed entries were stored for are kept in the call's result
InvalidateAllVersions ==
    /\ Uncounted
    /\ \E secret_name \in KeyNames :
        LET invalidated == _invalidate_cache(cache, secret_name, NoVersion)
            removed == Removed(cache, invalidated)
        IN /\ cache' = invalidated
           /\ last' = Call("_invalidate_cache", secret_name, NoVersion, "",
                           <<>>, TRUE,
                           [owners |-> {cache[k].value.secret_name : k \in removed}],
                           0, FALSE, removed)
    /\ UNCHANGED <<enable_cache, cache_ttl_seconds, now, secrets>>

InitKeys == Init /\ enable_cache /\ cache_ttl_seconds = MaxTTL

NextKeys == CacheResponse \/ LookUpResponse \/ InvalidateAllVersions

SpecKeys == InitKeys /\ [][NextKeys]_vars

\* ================================================================ claims
\* a step that is one service call
IsCall == ncalls' = ncalls + 1

\* what the backend answers now to the request of the last get_secret
BackendAnswer ==
    access_secret_version(_get_secret_version_path(last.name, last.version))

\* C1: with caching enabled, once a write, delete or state-change operation
\* on a secret has returned, no get_secret for that secret returns a cached
\* response that differs from what the backend would return for the same
\* request.  (A cached response can differ from the backend only after such
\* an operation succeeded on the secret, so the statement covers every
\* response served from the cache.)
C1_NoStaleCachedRead ==
    (last.op = "get_secret" /\ last.ok /\ last.hit)
        => /\ BackendAnswer.ok
           /\ last.result = SecretResponse(last.name, BackendAnswer.data,
                                           LastSegment(BackendAnswer.name))

\* version number named by the response of the last get_secret
ReturnedVersion ==
    CHOOSE n \in 1..(MaxVersions + 1) : VersionStr(n) = last.result.version

\* C2: once disable_secret_version or destroy_secret_version of a version has
\* returned, no get_secret (explicit version or 'latest') returns that
\* version until it is enabled again, and never if it was destroyed: the
\* version a get_secret returns is an existing, enabled version.
C2_NoDisabledOrDestroyedRead ==
    (last.op = "get_secret" /\ last.ok)
        => /\ SecretExists(last.name)
           /\ ReturnedVersion <= Len(secrets[last.name].versions)
           /\ secrets[last.name].versions[ReturnedVersion].state = "ENABLED"

\* the entry of key k in cache c is one a lookup at time t still returns
Fresh(c, k, t) == k \in DOMAIN c /\ t < c[k].expiry

\* cache c2 is cache c1 without the keys in gone, nothing else changed
Without(c1, gone, c2) ==
    /\ DOMAIN c2 = DOMAIN c1 \ gone
    /\ \A k \in DOMAIN c2 : c2[k] = c1[k]

\* C3: with caching enabled, a get_secret(name, version) made while the
\* entry of (name, version) is unexpired causes no backend access and returns
\* the entry; a get_secret that finds no entry or an expired one causes
\* exactly one backend access, and on success stores the response for the
\* following calls.
C3_FreshEntryServedWithoutBackend ==
    [][(IsCall /\ last'.op = "get_secret" /\ enable_cache)
          => IF Fresh(cache, last'.key, now)
             THEN /\ last'.calls = 0
                  /\ last'.ok
                  /\ last'.result = cache[last'.key].value
                  /\ cache' = cache
             ELSE /\ last'.calls = 1
                  /\ last'.ok =>
                        /\ last'.key \in DOMAIN cache'
                        /\ cache'[last'.key] =
                              [value |-> last'.result,
                               expiry |-> now + cache_ttl_seconds]]_vars

\* a get_secret answered from the cache, without a backend call
C3_Witness ==
    enable_cache /\ last.op = "get_secret" /\ last.hit /\ last.calls = 0

\* C4: a cache lookup returns a value only while now < expiry of its entry;
\* a lookup that finds an expired entry reports absent and removes exactly
\* that entry.
C4_LookupNeverReturnsExpired ==
    [][(IsCall /\ last'.op = "_get_from_cache")
          => /\ last'.result # None
                  => /\ last'.key \in DOMAIN cache
                     /\ now < cache[last'.key].expiry
                     /\ last'.result = cache[last'.key].value
                     /\ cache' = cache
             /\ (enable_cache /\ last'.key \in DOMAIN cache
                   /\ cache[last'.key].expiry <= now)
                  => /\ last'.result = None
                     /\ Without(cache, {last'.key}, cache')]_vars

\* a lookup found an expired entry, reported absent and purged it
C4_Witness ==
    /\ last.op = "_get_from_cache"
    /\ last.result = None
    /\ last.removed = {last.key}

\* cache keys of secret name: its explicit versions and 'latest'
KeysOf(name) == {_get_cache_key(name, v) : v \in VersionInputs}

\* C5: a successful delete_secret(name) removes every cache entry of that
\* secret (explicit versions and 'latest') and leaves the entries of every
\* other secret unchanged.
C5_DeleteInvalidatesOnlyThatSecret ==
    [][(IsCall /\ last'.op = "delete_secret" /\ last'.ok)
          => Without(cache, KeysOf(last'.name), cache')]_vars

\* a delete removed the deleted secret's entry and another secret's entry
\* is still cached
C5_Witness ==
    /\ last.op = "delete_secret" /\ last.ok
    /\ last.removed # {}
    /\ \E other \in Names \ {last.name} : DOMAIN cache \cap KeysOf(other) # {}

\* C6: a successful add_secret_version(name, value) removes only the cache
\* entry of (name, 'latest'), leaving explicit versions of the secret and the
\* entries of other secrets unchanged, and the next get_secret(name) returns
\* the value and version just added, fetched from the backend.
C6_AddInvalidatesOnlyLatest ==
    [][/\ (IsCall /\ last'.op = "add_secret_version" /\ last'.ok)
            => Without(cache,
                       {_get_cache_key(last'.result.secret_name, LATEST)},
                       cache')
       /\ (IsCall /\ last.op = "add_secret_version" /\ last.ok
             /\ last'.op = "get_secret" /\ last'.ok
             /\ last'.name = last.result.secret_name
             /\ last'.version = LATEST)
            => /\ last'.result.secret_value = last.value
               /\ last'.result.version = last.result.version
               /\ last'.calls = 1]_vars

\* an add removed the 'latest' entry of the secret while the entry of one of
\* its explicit versions stayed cached
C6_Witness ==
    /\ last.op = "add_secret_version" /\ last.ok
    /\ last.removed = {_get_cache_key(last.result.secret_name, LATEST)}
    /\ \E n \in 1..MaxVersions :
          _get_cache_key(last.result.secret_name, VersionStr(n)) \in DOMAIN cache

\* C7: invalidating a specific (name, version) removes exactly that one
\* cache entry; the entries of other versions of the secret, of
\* (name, 'latest') and of other secrets are not affected.
C7_InvalidateVersionRemovesOneKey ==
    [][(IsCall /\ last'.op = "_invalidate_cache" /\ last'.version # NoVersion)
          => Without(cache, {_get_cache_key(last'.name, last'.version)},
                     cache')]_vars

\* an invalidation of one version removed its entry and left another entry
\* of the same secret cached
C7_Witness ==
    /\ last.op = "_invalidate_cache" /\ last.version # NoVersion
    /\ last.removed = {_get_cache_key(last.name, last.version)}
    /\ (DOMAIN cache \cap KeysOf(last.name)) # {}

\* C8: with caching disabled the cache store stays empty whatever is called,
\* every lookup reports absent, the statistics report size 0, and every
\* get_secret issues a backend access.
C8_DisabledCacheIsInert ==
    ~enable_cache
        => /\ cache = << >>
           /\ last.removed = {}
           /\ last.op = "get_secret" => (last.calls = 1 /\ ~last.hit)
           /\ last.op = "_get_from_cache" => last.result = None
           /\ last.op = "get_cache_stats" => last.result.size = 0

\* a put was made on a service with caching disabled
C8_Witness == ~enable_cache /\ last.op = "_put_in_cache" /\ ncalls > 1

\* a put stores (value, now + ttl) under its key, replacing the key's entry
\* and leaving the other entries unchanged
PutReplacesEntry ==
    (IsCall /\ enable_cache /\ last'.op = "_put_in_cache")
        => /\ DOMAIN cache' = DOMAIN cache \cup {last'.key}
           /\ cache'[last'.key] = [value |-> last'.result,
                                   expiry |-> now + cache_ttl_seconds]
           /\ \A k \in DOMAIN cache \ {last'.key} : cache'[k] = cache[k]

\* the step is a get(key) made right after put(key, v), at the time of the put
GetRightAfterPut ==
    /\ IsCall /\ enable_cache
    /\ last.op = "_put_in_cache"
    /\ last'.op = "_get_from_cache" /\ last'.key = last.key
    /\ cache[last.key].expiry = now + cache_ttl_seconds

\* C9 as stated: with caching enabled, for every key and every configured
\* TTL, put(key, v) followed immediately by get(key) returns v, and a put on
\* an existing key replaces its value and its expiry (now + ttl).
C9_PutThenGetAnyTTL ==
    [][/\ PutReplacesEntry
       /\ GetRightAfterPut => last'.result = last.result]_vars

\* C9 amended: with caching enabled, for every key and every configured TTL
\* greater than zero, put(key, v) followed immediately by get(key) returns
\* v, and a put on an existing key replaces its value and its expiry
\* (now + ttl).
C9_PutThenGetPositiveTTL ==
    [][/\ PutReplacesEntry
       /\ (GetRightAfterPut /\ cache_ttl_seconds > 0)
            => last'.result = last.result]_vars

\* a get returned the value of an entry put after the clock had advanced
C9_Witness ==
    /\ last.op = "_get_from_cache" /\ last.result # None
    /\ now > 0
    /\ cache[last.key].expiry = now + cache_ttl_seconds

\* C10: get_cache_stats changes no cache entry and reports size = number of
\* stored entries, expired_entries = number of stored entries a lookup at
\* that instant treats as expired, and active_entries = size -
\* expired_entries.
C10_StatsAgreeWithLookup ==
    [][(IsCall /\ enable_cache /\ last'.op = "get_cache_stats")
          => /\ cache' = cache
             /\ last'.result.size = Cardinality(DOMAIN cache)
             /\ last'.result.expired_entries =
                   Cardinality({k \in DOMAIN cache : ~Fresh(cache, k, now)})
             /\ last'.result.active_entries =
                   last'.result.size - last'.result.expired_entries]_vars

\* ---------------------------------------------------------- construction
\* the project sources in their order of priority
ProjectPriority ==
    <<"constructor_parameter", "framework_environment",
      "GOOGLE_CLOUD_PROJECT", "GCP_PROJECT", "GCLOUD_PROJECT", "PROJECT_ID",
      "gcloud_config", "metadata_service">>

IsProjectRead(r) ==
    r.source \in {ProjectPriority[i] : i \in 1..Len(ProjectPriority)}

\* the project sources construction has consulted, in the order it did
ProjectReads == SelectSeq(consulted, IsProjectRead)

\* C11: the project ID fixed at construction is the value of the
\* highest-priority non-empty source, in the order constructor argument,
\* framework environment, the conventional environment variables in their
\* order, local CLI, metadata service: the sources consulted are an initial
\* stretch of that order, all but the last of them gave nothing, the last
\* gave the project ID, and none after it was consulted.
C11_FirstNonEmptyProjectSourceWins ==
    project_id # None =>
        LET reads == ProjectReads
            k == Len(reads)
        IN /\ k >= 1
           /\ \A i \in 1..k : reads[i].source = ProjectPriority[i]
           /\ \A i \in 1..(k - 1) : ~Truthy(reads[i].value)
           /\ Truthy(reads[k].value)
           /\ project_id = reads[k].value

\* a service constructed on the project of the third conventional
\* environment variable, every source before it having given nothing
C11_Witness ==
    /\ pc = "done"
    /\ project_id = Str(<<"GCLOUD_PROJECT">>)
    /\ Len(ProjectReads) = 5

\* C12: if no project source yields a non-empty value, construction fails
\* with SecretManagerException, and neither a service instance nor a
\* backend client is produced.
C12_NoProjectRaisesDomainException ==
    /\ pc = "done" => Truthy(project_id)
    /\ (pc = "raised" /\ project_id = None) =>
           /\ raised.type = "SecretManagerException"
           /\ client = None

\* an explicitly supplied credential input that is malformed: a path with
\* no loadable key file behind it, a string that is not usable
\* service-account JSON, a value of an unsupported type
MalformedCredentialInput(r) ==
    \/ /\ r.source = "credentials_path"
       /\ Truthy(r.value.path)
       /\ (~r.value.file.exists \/ r.value.file.load.raises # None)
    \/ /\ r.source = "credentials"
       /\ Truthy(r.value)
       /\ \/ r.value.type \notin {"str", "Credentials"}
          \/ /\ r.value.type = "str"
             /\ r.value.value # <<"{", "service_account", "}">>

\* C13: for every malformed explicit credential input construction fails at
\* once with SecretManagerException, and no credential source is consulted
\* after it.
C13_MalformedCredentialsFailFast ==
    \A i \in 1..Len(consulted) :
        MalformedCredentialInput(consulted[i]) =>
            /\ i = Len(consulted)
            /\ pc = "raised"
            /\ raised.type = "SecretManagerException"

BestEffortSources ==
    {"gcloud_config", "metadata_service", "framework_credentials",
     "default_credentials"}

\* where construction stands after a best-effort source found nothing
NextAfter(source) ==
    CASE source = "gcloud_config" -> "_try_metadata_service_project_id"
      [] source = "framework_credentials" -> "_try_default_credentials"
      [] source = "default_credentials" -> "_initialize_client"
      [] OTHER -> "raised"

\* C14: a failure of a best-effort step (local CLI, metadata service,
\* framework credential path, ambient credentials) is absorbed: it never
\* leaves construction and the chain goes on to the next source; after the
\* last project source the only failure is the domain exception for want
\* of a project.
C14_BestEffortFailuresAbsorbed ==
    [][LET r == consulted'[Len(consulted')]
       IN (/\ Len(consulted') > Len(consulted)
           /\ r.source \in BestEffortSources
           /\ r.failure # None)
          => IF r.source = "metadata_service"
             THEN pc' = "raised" /\ raised'.type = "SecretManagerException"
             ELSE pc' = NextAfter(r.source) /\ raised' = None]_vars

\* the last step was a call of the error mapper
Mapped == last.op = "_map_gcp_exception"

\* a backend error and the class of the domain exception it became
Mapping(e, type) == [e |-> e, type |-> type]

\* the mapping of the last step, when it was a mapper call or an operation
\* that raised
Mappings ==
    IF Mapped \/ ~last.ok
    THEN {Mapping(last.result.cause, last.result.exception)}
    ELSE {}

\* the context the mapper was last handed, as a mapping
GivenContext ==
    IF last.result.context = None THEN EmptyContext ELSE last.result.context

MentionsDisabledOrDestroyed(e) ==
    \/ Contains(lower(str(e)), DISABLED_WORD)
    \/ Contains(lower(str(e)), DESTROYED_WORD)

\* exception classes the mapping table has no row for
Unrecognized == {"Aborted", "ValueError", "KeyError"}

\* the rows of the mapping table for the errors other than not-found,
\* invalid-argument, unauthenticated, retry-exhausted and too-many-requests
Tabled ==
    {"PermissionDenied", "ResourceExhausted", "DeadlineExceeded",
     "ServiceUnavailable", "InternalServerError", "ConnectionError",
     "ConnectionResetError", "TimeoutError", "OSError", "FailedPrecondition",
     "AlreadyExists"} \cup Unrecognized

MappingTable(e) ==
    CASE e.type = "PermissionDenied" -> "SecretAccessDeniedException"
      [] e.type = "ResourceExhausted" -> "SecretQuotaExceededException"
      [] e.type = "DeadlineExceeded" -> "SecretTimeoutException"
      [] e.type = "ServiceUnavailable" -> "SecretUnavailableException"
      [] e.type = "InternalServerError" -> "SecretInternalErrorException"
      [] e.type \in {"ConnectionError", "ConnectionResetError",
                     "TimeoutError", "OSError"}
            -> "SecretConnectionException"
      [] e.type = "FailedPrecondition" /\ MentionsDisabledOrDestroyed(e)
            -> "SecretVersionNotFoundException"
      [] OTHER -> "SecretManagerException"

\* C16: every backend error of the classes PermissionDenied,
\* ResourceExhausted, DeadlineExceeded, ServiceUnavailable,
\* InternalServerError, connection and OS errors, FailedPrecondition,
\* AlreadyExists, and of a class the table does not know, becomes the domain
\* exception the mapping table gives, in the mapper and in every operation
\* that raises
C16_MappingTable ==
    \A m \in Mappings : m.e.type \in Tabled => m.type = MappingTable(m.e)

\* get_secret raised for a version the backend reports as DISABLED
C16_Witness ==
    /\ last.op = "get_secret"
    /\ ~last.ok
    /\ last.result.cause = VersionDisabled
    /\ last.result.exception = "SecretVersionNotFoundException"

\* C17: a backend InvalidArgument error becomes InvalidSecretValueException
C17_InvalidArgumentIsInvalidValue ==
    \A m \in Mappings :
        m.e.type = "InvalidArgument" => m.type = "InvalidSecretValueException"

\* C18: a backend Unauthenticated error becomes SecretAccessDeniedException,
\* with a message that says authentication failed
C18_UnauthenticatedIsAccessDenied ==
    /\ \A m \in Mappings :
           m.e.type = "Unauthenticated"
               => m.type = "SecretAccessDeniedException"
    /\ (Mapped /\ last.result.cause.type = "Unauthenticated") =>
           \E i \in 1..Len(last.result.message) :
               last.result.message[i] = "Authentication failed"

\* C19: a backend RetryError becomes SecretConnectionException and a backend
\* TooManyRequests error becomes SecretQuotaExceededException
C19_RetryIsConnectionAndTooManyIsQuota ==
    \A m \in Mappings :
        /\ m.e.type = "RetryError" => m.type = "SecretConnectionException"
        /\ m.e.type = "TooManyRequests"
               => m.type = "SecretQuotaExceededException"

\* SecretManagerException and its subclasses
DomainExceptions ==
    {"SecretManagerException", "SecretNotFoundException",
     "SecretAlreadyExistsException", "SecretAccessDeniedException",
     "SecretVersionNotFoundException", "InvalidSecretNameException",
     "InvalidSecretValueException", "SecretConnectionException",
     "SecretQuotaExceededException", "SecretInternalErrorException",
     "SecretUnavailableException", "SecretTimeoutException"}

\* C20: the mapper returns a domain exception for every exception and
\* context, and an operation in which a backend call raised ends by raising
\* a domain exception, after that one failed call
C20_EveryBackendFailureRaisesDomainException ==
    /\ \A m \in Mappings : m.type \in DomainExceptions
    /\ last.failed > 0 => (~last.ok /\ last.failed = 1)

\* ---------------------------------------------------------------- logging
\* the last step ran a logging helper or the mapper on a pair of contexts
LoggedPair == "contexts" \in DOMAIN last.result

PublicOperations ==
    {"create_secret", "get_secret", "list_secrets", "delete_secret",
     "add_secret_version", "list_secret_versions", "disable_secret_version",
     "enable_secret_version", "destroy_secret_version", "get_secret_metadata"}

CallBound(op) ==
    CASE op = "create_secret" -> 2
      [] op = "get_secret_metadata" -> 3
      [] op = "list_secrets" -> 1 + 2 * Cardinality({id \in Names : SecretExists(id)})
      [] OTHER -> 1

C23_VersionWorkflow ==
    LET versions == secrets[<<"a">>].versions
    IN (last.op = "get_secret" /\ Len(versions) >= 2) =>
         /\ last.version = LATEST =>
              /\ last.ok
              /\ last.result.secret_value = versions[Len(versions)].value
         /\ (last.version = VersionStr(1) /\ versions[1].state = "ENABLED") =>
              /\ last.ok
              /\ last.result.secret_value = versions[1].value
              /\ last.result.version = VersionStr(1)
         /\ (last.version = VersionStr(1) /\ versions[1].state = "DISABLED") =>
              /\ ~last.ok
              /\ last.result.exception = "SecretVersionNotFoundException"

\* version 1 was read and cached, then disabled, and the next read of it
\* raised
C23_Witness ==
    /\ enable_cache
    /\ last.op = "get_secret" /\ last.version = VersionStr(1) /\ ~last.ok
    /\ Len(secrets[<<"a">>].versions) = 2
    /\ secrets[<<"a">>].versions[1].value # secrets[<<"a">>].versions[2].value
    /\ secrets[<<"a">>].versions[1].state = "DISABLED"
    /\ _get_cache_key(<<"a">>, LATEST) \in DOMAIN cache


\* ---------------------------------------------------------------- C24
Built == last.op = "ParameterVersionCreateRequest"

\* C24 as stated: a data string that does not parse as JSON fails the
\* validation of a request with format_type 'JSON', and one that does not
\* parse as YAML that of a request with format_type 'YAML'
C24_UnparseableDataRejected ==
    (Built /\ last.result.data.type = "str") =>
        /\ (last.result.format_type = "JSON"
              /\ ~json_loads_returns(last.result.data.value)) => ~last.ok
        /\ (last.result.format_type = "YAML"
              /\ ~yaml_safe_load_returns(last.result.data.value)) => ~last.ok

\* ---------------------------------------------------------------- C25
SIZE_ERROR == "Parameter data cannot exceed 1 MiB"

\* C25: the data of a request is rejected for its size exactly when the
\* UTF-8 encoding of its string form is longer than 1,048,576 bytes, whatever
\* the format type; a request whose names and format type are valid is built
\* exactly when its data is at most 1,048,576 bytes
C25_SizeLimitInBytes ==
    Built =>
      LET bytes == Utf8Len(_convert_to_string(last.result.data))
      IN /\ (SIZE_ERROR \in last.result.errors) <=> (bytes > 1048576)
         /\ (last.result.errors \subseteq {SIZE_ERROR}) =>
                (last.ok <=> bytes <= 1048576)

\* text of exactly 1,048,576 bytes in 524,288 characters was accepted in a
\* JSON request
C25_Witness ==
    /\ Built /\ last.ok /\ last.result.format_type = "JSON"
    /\ last.result.data = Str(<<Run("U+00E9", 524288)>>)


\* ---------------------------------------------------------------- C26
\* C26 as stated: create_task raises InvalidTaskPayloadException when the
\* payload is not a dict or the backend rejects it as INVALID_ARGUMENT,
\* QueueNotFoundException when the backend reports NOT_FOUND,
\* TaskCreationException only for other failures, and a payload that is not
\* a dict never reaches the backend
C26_CreateTaskExceptions ==
    last.op = "create_task" =>
      LET payload == last.result.request.payload
          failure == last.result.failure
          reported(status) ==
              /\ last.calls = 1 /\ failure # None
              /\ Contains(str(failure), <<status>>)
      IN /\ payload.type # "dict" =>
              /\ last.result.exception = "InvalidTaskPayloadException"
              /\ last.calls = 0
         /\ reported("NOT_FOUND") =>
              last.result.exception = "QueueNotFoundException"
         /\ (reported("INVALID_ARGUMENT") /\ ~reported("NOT_FOUND")) =>
              last.result.exception = "InvalidTaskPayloadException"
         /\ last.result.exception = "TaskCreationException" =>
              /\ payload.type = "dict"
              /\ ~reported("NOT_FOUND") /\ ~reported("INVALID_ARGUMENT")


\* ---------------------------------------------------------------- C27
\* C27: a service operation that raises leaves every cache entry as it was,
\* except entries already expired, and adds none: a failed get_secret caches
\* nothing, and a failed add_secret_version, delete_secret,
\* disable_secret_version or destroy_secret_version invalidates nothing
C27_FailedOperationKeepsCache ==
    [][(ncalls' = ncalls + 1 /\ ~last'.ok) =>
         /\ \A k \in DOMAIN cache' : k \in DOMAIN cache /\ cache'[k] = cache[k]
         /\ \A k \in DOMAIN cache \ DOMAIN cache' : ~Fresh(cache, k, now)]_vars

\* delete_secret raised while an unexpired entry of that secret was cached
C27_Witness ==
    /\ last.op = "delete_secret" /\ ~last.ok
    /\ Fresh(cache, _get_cache_key(last.name, LATEST), now)


\* ---------------------------------------------------------------- C28
\* C28 as stated: a create_secret that raises leaves in the backend no
\* secret that did not exist before the call
C28_CreateSecretAllOrNothing ==
    [][(ncalls' = ncalls + 1 /\ last'.op = "create_secret" /\ ~last'.ok) =>
         \A id \in Names : secrets'[id].exists => secrets[id].exists]_vars


\* ---------------------------------------------------------------- C29
\* C29 as stated: for every secret_name, with or without surrounding
\* whitespace, once disable_secret_version(secret_name, version) has
\* succeeded the cache holds no entry for that version of the secret that
\* was disabled in the backend, the one the stripped name denotes
C29_DisableInvalidatesDisabledSecret ==
    (last.op = "disable_secret_version" /\ last.ok) =>
        _get_cache_key(Strip(last.name), last.version) \notin DOMAIN cache


\* ---------------------------------------------------------------- C30
KeyPairs == KeyNames \X KeyVersions

\* the (name, version) pairs of names in S have keys of their own, a lookup
\* for a name in S returns no entry stored for another name in S, and the
\* invalidation of all versions of a name in S removes no entry stored for
\* another name in S
Isolated(S) ==
    /\ \A p, q \in KeyPairs :
         (p[1] \in S /\ q[1] \in S /\ p # q) =>
             _get_cache_key(p[1], p[2]) # _get_cache_key(q[1], q[2])
    /\ (last.op = "_get_from_cache" /\ last.result # None /\ last.name \in S
          /\ last.result.secret_name \in S) =>
             last.result.secret_name = last.name
    /\ (last.op = "_invalidate_cache" /\ last.name \in S) =>
             last.result.owners \cap S \subseteq {last.name}

====
